---- MODULE Spec2Model ----
(***************************************************************************)
(* The practice games of wordsup-front as one state machine.  One page     *)
(* component is mounted at a time (page); each page keeps its own React    *)
(* state, modelled as one record per page with the field names of the      *)
(* component's useState hooks.  A handler runs to completion before the    *)
(* next event is dispatched, so every handler is one action; the only      *)
(* suspended computations are the narration loops of the listen-words      *)
(* page, which are modelled as processes with a position.                  *)
(*                                                                         *)
(* Numbers are 0-based where the code's are (currentIndex, correctIndex,   *)
(* button ids); sequences are 1-based, so item i of the code is seq[i+1].  *)
(* A value of type `number | null` uses -1 for null, a `string | null`     *)
(* uses "null".  Texts are sequences of one-character strings.             *)
(***************************************************************************)
EXTENDS Integers, Sequences, FiniteSets, TLC

VARIABLES
    page,        \* the mounted page: "mc" "bw" "cp" "mp" "fc" "lw"
    words,       \* the word list the /words query returned
    mc,          \* MultipleChoiceGamePage state
    bw,          \* BuildWordGamePage state
    cp,          \* ColumnPairsGamePage state
    mp,          \* MatchingPairsGamePage state
    fc,          \* FlashcardsGamePage state
    lw,          \* ListenWordsGamePage state
    statsPosts,  \* the stats requests issued since the session was started
    statsReplies,\* how the first of these requests ended: "ok" or "failed" each
    call         \* a helper function applied on its own: its name, input and output

vars == <<page, words, mc, bw, cp, mp, fc, lw, statsPosts, statsReplies, call>>

\* no helper function is applied on its own
NoCall == [fn |-> "none", input |-> <<>>, output |-> <<>>]

-----------------------------------------------------------------------------
(* Bounds of the model *)

MaxWords == 3        \* words in the fetched list
MaxAnswers == 3      \* Answer Records of one build-word session
MaxGroups == 2       \* groups offered by the group filter
MaxRuns == 2         \* narration loops in flight on the listen-words page
MaxRepeats == 1      \* "repeat" calls in flight on the listen-words page
MaxFairWords == 2    \* words in the list when playback is checked under fairness
MaxSaves == 2        \* presses of "save stats" in one matching-pairs session
MaxMoves == 3        \* moves of one matching-pairs session
MaxTimers == 2       \* flip-back timers pending at once
MaxFilterWords == 14 \* words in the lists the pool filters are applied to
MaxShuffleLen == 4   \* items of an array shuffled on its own
MaxShuffleItem == 3  \* distinct items of such an array
MaxTargetLen == 4    \* characters of a build-word target built on its own
MaxPlayTargetLen == 2 \* characters of a build-word target played in a session

(* Program constants *)

ALL == 0                  \* groupId 'all'
ALL_POSSIBLE == 9999      \* questionCount sentinel "all available"
FALLBACK_MIN == 10        \* the in-group size below which other groups are added
MAX_DISTRACTORS == 3
MIN_OPTIONS == 2
MIN_PAIRS == 2
MP_MIN_PAIRS == 2
SWIPE_THRESHOLD == 60

Statuses == {"unknown", "learning", "known"}
StatusFilters == {"all"} \cup Statuses
GroupIds == 1..MaxGroups
GroupFilters == {ALL} \cup GroupIds
\* the filter values offered while a game is played through
PlayStatusFilters == {"all", "learning", "unknown"}
PlayGroupFilters == {ALL, 1}
QuestionCounts == {10, ALL_POSSIBLE}
PairCounts == {4, 6}
Modes == {"enToUk", "ukToEn", "imageToEn"}

-----------------------------------------------------------------------------
(* The fetched words.  Word i of the list has these fields; the list is    *)
(* built so that an English text repeats (words 1 and 3), an image is      *)
(* missing (word 2), a translation is missing (word 3) and a word is not   *)
(* "simple" (word 4).                                                      *)

WordEn(i) ==
    CASE i % 4 = 1 -> <<"a", "b">>
      [] i % 4 = 2 -> <<"B", ",", " ", "a">>
      [] i % 4 = 3 -> <<"a", "b">>
      [] OTHER     -> <<"a", "-", "b">>

TranslationUk(i) ==
    CASE i % 4 = 1 -> <<"x">>
      [] i % 4 = 2 -> <<"y">>
      [] i % 4 = 3 -> <<>>
      [] OTHER     -> <<"x">>

Word(i) ==
    [ id             |-> i,
      group_id       |-> IF i % 2 = 1 THEN 1 ELSE 2,
      word_en        |-> WordEn(i),
      translation_uk |-> TranslationUk(i),
      image_url      |-> IF i % 4 = 2 THEN <<>> ELSE <<"u">>,
      status         |-> CASE i % 3 = 1 -> "known"
                           [] i % 3 = 2 -> "learning"
                           [] OTHER     -> "unknown" ]

WordList(n) == [i \in 1..n |-> Word(i)]

-----------------------------------------------------------------------------
(* Helpers over sequences *)

Min(a, b) == IF a < b THEN a ELSE b
Max(a, b) == IF a > b THEN a ELSE b

Range(s) == {s[i] : i \in 1..Len(s)}

Slice(s, from, to) ==
    \* Array.prototype.slice(from, to), 0-based, to exclusive
    SubSeq(s, from + 1, Min(to, Len(s)))

FindIndex(hits) ==
    \* Array.prototype.findIndex over the predicate's values, item by item: the
    \* first 0-based index whose item satisfies it, or -1
    IF \E i \in 1..Len(hits) : hits[i]
    THEN (CHOOSE i \in 1..Len(hits) : hits[i] /\ \A k \in 1..(i - 1) : ~hits[k]) - 1
    ELSE -1

DedupeKeepingAll(s) ==
    \* no deduplication: the list as it is
    s

RECURSIVE Dedupe(_)
Dedupe(s) ==
    \* Array.from(new Set(s)): first occurrences, in order
    IF s = <<>> THEN <<>>
    ELSE LET front == Dedupe(SubSeq(s, 1, Len(s) - 1))
             last  == s[Len(s)]
         IN IF last \in Range(front) THEN front ELSE Append(front, last)

Truthy(text) == text # <<>>

ToLowerCase(ch) ==
    CASE ch = "A" -> "a"
      [] ch = "B" -> "b"
      [] OTHER    -> ch

Lower(text) == [i \in 1..Len(text) |-> ToLowerCase(text[i])]

IsWhitespace(ch) == ch = " "

SwapOverwriting(s, i, j) ==
    \* an assignment of s[j] to s[i] that loses the old s[i]
    [s EXCEPT ![i + 1] = s[j + 1]]

Swap(s, i, j) ==
    \* [s[i], s[j]] = [s[j], s[i]] with 0-based i, j
    [s EXCEPT ![i + 1] = s[j + 1], ![j + 1] = s[i + 1]]

RECURSIVE FisherYates(_, _)
FisherYates(copy, i) ==
    \* the outcomes of the loop  for (i; i > 0; i--) { j = floor(random * (i + 1)); swap }
    IF i <= 0 THEN {copy}
    ELSE UNION {FisherYates(Swap(copy, i, j), i - 1) : j \in 0..i}

ShuffleArray(arr) == FisherYates(arr, Len(arr) - 1)

-----------------------------------------------------------------------------
(* Pool filters *)

McFilteredBaseWords(ws, settings) ==
    LET byStatus == IF settings.status # "all"
                    THEN SelectSeq(ws, LAMBDA w : w.status = settings.status)
                    ELSE ws
        inGroup    == SelectSeq(byStatus, LAMBDA w : w.group_id = settings.groupId)
        outOfGroup == SelectSeq(byStatus, LAMBDA w : w.group_id # settings.groupId)
        byGroup  == IF settings.groupId # ALL
                    THEN inGroup \o (IF Len(inGroup) < FALLBACK_MIN THEN outOfGroup ELSE <<>>)
                    ELSE byStatus
    IN IF settings.mode \in {"enToUk", "ukToEn"}
       THEN SelectSeq(byGroup, LAMBDA w : Truthy(w.translation_uk))
       ELSE SelectSeq(byGroup, LAMBDA w : Truthy(w.image_url))

IsSimpleWord(text) ==
    \* /^[a-zA-Z ,]+$/
    /\ Len(text) > 0
    /\ \A i \in 1..Len(text) : text[i] \in {"a", "b", "A", "B", " ", ","}

BwFilteredBaseWordsAlwaysFallback(ws, settings) ==
    \* a filter that appends the out-of-group words whatever the group holds
    LET simple   == SelectSeq(ws, LAMBDA w : IsSimpleWord(w.word_en))
        byStatus == IF settings.status # "all"
                    THEN SelectSeq(simple, LAMBDA w : w.status = settings.status)
                    ELSE simple
        inGroup    == SelectSeq(byStatus, LAMBDA w : w.group_id = settings.groupId)
        outOfGroup == SelectSeq(byStatus, LAMBDA w : w.group_id # settings.groupId)
        byGroup  == IF settings.groupId # ALL
                    THEN inGroup \o outOfGroup
                    ELSE byStatus
    IN SelectSeq(byGroup, LAMBDA w : Truthy(w.translation_uk))

BwFilteredBaseWords(ws, settings) ==
    LET simple   == SelectSeq(ws, LAMBDA w : IsSimpleWord(w.word_en))
        byStatus == IF settings.status # "all"
                    THEN SelectSeq(simple, LAMBDA w : w.status = settings.status)
                    ELSE simple
        inGroup    == SelectSeq(byStatus, LAMBDA w : w.group_id = settings.groupId)
        outOfGroup == SelectSeq(byStatus, LAMBDA w : w.group_id # settings.groupId)
        byGroup  == IF settings.groupId # ALL
                    THEN inGroup \o (IF Len(inGroup) < FALLBACK_MIN THEN outOfGroup ELSE <<>>)
                    ELSE byStatus
    IN SelectSeq(byGroup, LAMBDA w : Truthy(w.translation_uk))

CpFilteredWordsAnyStatus(ws, settings) ==
    \* a filter that ignores the selected status
    LET byGroup == IF settings.groupId # ALL
                   THEN SelectSeq(ws, LAMBDA w : w.group_id = settings.groupId)
                   ELSE ws
    IN SelectSeq(byGroup, LAMBDA w : Truthy(w.word_en) /\ Truthy(w.translation_uk))

CpFilteredWords(ws, settings) ==
    LET byStatus == IF settings.status # "all"
                    THEN SelectSeq(ws, LAMBDA w : w.status = settings.status)
                    ELSE ws
        byGroup  == IF settings.groupId # ALL
                    THEN SelectSeq(byStatus, LAMBDA w : w.group_id = settings.groupId)
                    ELSE byStatus
    IN SelectSeq(byGroup, LAMBDA w : Truthy(w.word_en) /\ Truthy(w.translation_uk))

-----------------------------------------------------------------------------
(* Multiple choice *)

McInit ==
    [ phase           |-> "setup",
      settings        |-> [groupId |-> ALL, status |-> "all",
                           questionCount |-> 10, mode |-> "enToUk"],
      questions       |-> <<>>,
      currentIndex    |-> 0,
      selectedIndex   |-> -1,
      answers         |-> <<>>,
      correctCount    |-> 0,
      streak          |-> 0,
      bestStreak      |-> 0,
      error           |-> "null",
      selectedForMark |-> {} ]

OptionText(w, mode) ==
    IF mode = "enToUk" THEN w.translation_uk ELSE w.word_en

BuildQuestion(target, pool, mode, i) ==
    \* one pass of the loop body: the set of results, each <<question>> or <<>> (dropped)
    LET distractPool == SelectSeq(pool, LAMBDA w : w.id # target.id)
        correctText  == OptionText(target, mode)
    IN UNION {
         LET distract == Slice(ds, 0, Max(0, MAX_DISTRACTORS))
             all      == <<correctText>> \o [k \in 1..Len(distract) |-> OptionText(distract[k], mode)]
             options  == Dedupe(SelectSeq(all, Truthy))
         IN IF Len(options) < MIN_OPTIONS THEN {<<>>}
            ELSE { LET correctIndex == FindIndex([n \in 1..Len(so) |-> so[n] = correctText])
                   IN IF correctIndex = -1 THEN <<>>
                      ELSE << [id |-> i, word |-> target, options |-> so,
                               correctIndex |-> correctIndex] >>
                   : so \in ShuffleArray(options) }
         : ds \in ShuffleArray(distractPool) }

RECURSIVE BuildFrom(_, _, _, _, _)
BuildFrom(shuffled, pool, mode, limit, i) ==
    IF i >= limit THEN {<<>>}
    ELSE {q \o rest : q \in BuildQuestion(shuffled[i + 1], pool, mode, i),
                      rest \in BuildFrom(shuffled, pool, mode, limit, i + 1)}

BuildQuestions(pool, mode, count) ==
    IF Len(pool) < 2 THEN {<<>>}
    ELSE UNION {BuildFrom(shuffled, pool, mode, Min(count, Len(shuffled)), 0)
                : shuffled \in ShuffleArray(pool)}

McCurrentQuestion ==
    \* <<q>> for the current question, <<>> for null
    IF mc.phase = "playing" /\ mc.currentIndex < Len(mc.questions)
    THEN <<mc.questions[mc.currentIndex + 1]>> ELSE <<>>

McOthers == <<page, words, bw, cp, mp, fc, lw, statsPosts, statsReplies, call>>

McSetStatus(choices) ==
    /\ page = "mc" /\ mc.phase = "setup"
    /\ \E s \in choices : mc' = [mc EXCEPT !.settings.status = s]
    /\ UNCHANGED McOthers

McSetGroup(choices) ==
    /\ page = "mc" /\ mc.phase = "setup"
    /\ \E g \in choices : mc' = [mc EXCEPT !.settings.groupId = g]
    /\ UNCHANGED McOthers

McSetQuestionCount ==
    /\ page = "mc" /\ mc.phase = "setup"
    /\ \E c \in QuestionCounts : mc' = [mc EXCEPT !.settings.questionCount = c]
    /\ UNCHANGED McOthers

McSetMode ==
    /\ page = "mc" /\ mc.phase = "setup"
    /\ \E m \in Modes : mc' = [mc EXCEPT !.settings.mode = m]
    /\ UNCHANGED McOthers

McStartGame(st) ==
    \* handleStartGame on the state st: the set of next states
    LET pool == McFilteredBaseWords(words, st.settings)
    IN IF Len(pool) = 0 THEN {[st EXCEPT !.error = "noWords"]}
       ELSE { IF Len(qs) = 0 THEN [st EXCEPT !.error = "noQuestions"]
              ELSE [st EXCEPT !.error = "null",
                              !.questions = qs,
                              !.currentIndex = 0,
                              !.selectedIndex = -1,
                              !.answers = <<>>,
                              !.correctCount = 0,
                              !.streak = 0,
                              !.bestStreak = 0,
                              !.selectedForMark = {},
                              !.phase = "playing"]
              : qs \in BuildQuestions(pool, st.settings.mode, st.settings.questionCount) }

McHandleStartGame ==
    /\ page = "mc" /\ mc.phase = "setup"
    /\ mc' \in McStartGame(mc)
    /\ UNCHANGED McOthers

McHandleRetry ==
    /\ page = "mc" /\ mc.phase = "results"
    /\ mc' \in McStartGame(mc)
    /\ UNCHANGED McOthers

McSelectOptionUnlocked(st, q, index) ==
    \* handleSelectOption without its "already answered" return
    LET isCorrect == index = q.correctIndex
        newStreak == st.streak + 1
    IN IF isCorrect
       THEN [st EXCEPT !.selectedIndex = index,
                       !.answers = Append(@, [wordId |-> q.word.id, correct |-> TRUE]),
                       !.correctCount = @ + 1,
                       !.streak = newStreak,
                       !.bestStreak = Max(@, newStreak)]
       ELSE [st EXCEPT !.selectedIndex = index,
                       !.answers = Append(@, [wordId |-> q.word.id, correct |-> FALSE]),
                       !.streak = 0]

McSelectOption(st, q, index) ==
    \* handleSelectOption(index) with currentQuestion = q
    LET isCorrect == index = q.correctIndex
        newStreak == st.streak + 1
    IN IF st.selectedIndex # -1 THEN st
       ELSE IF isCorrect
       THEN [st EXCEPT !.selectedIndex = index,
                       !.answers = Append(@, [wordId |-> q.word.id, correct |-> TRUE]),
                       !.correctCount = @ + 1,
                       !.streak = newStreak,
                       !.bestStreak = Max(@, newStreak)]
       ELSE [st EXCEPT !.selectedIndex = index,
                       !.answers = Append(@, [wordId |-> q.word.id, correct |-> FALSE]),
                       !.streak = 0]

McHandleSelectOption ==
    /\ page = "mc" /\ mc.phase = "playing"
    /\ McCurrentQuestion # <<>>
    /\ \E index \in 0..(Len(McCurrentQuestion[1].options) - 1) :
         mc' = McSelectOption(mc, McCurrentQuestion[1], index)
    /\ UNCHANGED McOthers

McNextQuestion(st) ==
    IF st.currentIndex + 1 >= Len(st.questions)
    THEN [st EXCEPT !.phase = "results"]
    ELSE [st EXCEPT !.currentIndex = @ + 1, !.selectedIndex = -1]

McHandleNextQuestion ==
    /\ page = "mc" /\ mc.phase = "playing"
    /\ McCurrentQuestion # <<>>
    /\ mc.selectedIndex # -1
    /\ mc' = McNextQuestion(mc)
    /\ UNCHANGED McOthers

McHandleToggleMark ==
    /\ page = "mc" /\ mc.phase = "results"
    /\ \E i \in 1..Len(mc.questions) :
         LET wordId == mc.questions[i].word.id
         IN mc' = [mc EXCEPT !.selectedForMark =
                      IF wordId \in @ THEN @ \ {wordId} ELSE @ \cup {wordId}]
    /\ UNCHANGED McOthers

McChangeSettings ==
    /\ page = "mc" /\ mc.phase = "results"
    /\ mc' = [mc EXCEPT !.phase = "setup"]
    /\ UNCHANGED McOthers

McNext ==
    \/ McSetStatus(PlayStatusFilters)
    \/ McSetGroup(PlayGroupFilters)
    \/ McSetQuestionCount
    \/ McSetMode
    \/ McHandleStartGame
    \/ McHandleRetry
    \/ McHandleSelectOption
    \/ McHandleNextQuestion
    \/ McHandleToggleMark
    \/ McChangeSettings

-----------------------------------------------------------------------------
(* Build the word *)

BwInit ==
    [ phase           |-> "setup",
      settings        |-> [groupId |-> ALL, status |-> "all", questionCount |-> 10,
                           showFirstLetter |-> FALSE],
      questions       |-> <<>>,
      currentIndex    |-> 0,
      slots           |-> <<>>,
      letters         |-> <<>>,
      selectedState   |-> "idle",
      feedback        |-> "null",
      answers         |-> <<>>,
      correctCount    |-> 0,
      streak          |-> 0,
      bestStreak      |-> 0,
      error           |-> "null",
      onlyWrongRetry  |-> FALSE,
      selectedForMark |-> {} ]

Trim(text) ==
    \* String.prototype.trim
    LET keep == {i \in 1..Len(text) : ~IsWhitespace(text[i])}
    IN IF keep = {} THEN <<>>
       ELSE SubSeq(text, CHOOSE i \in keep : \A k \in keep : i <= k,
                         CHOOSE i \in keep : \A k \in keep : i >= k)

RECURSIVE SlotsAndButtonsCommaButton(_, _, _, _)
SlotsAndButtonsCommaButton(normalized, i, newSlots, letterButtons) ==
    \* a loop that treats a comma as a letter to place: an empty slot and a button
    IF i > Len(normalized) THEN [slots |-> newSlots, letters |-> letterButtons]
    ELSE LET ch == normalized[i]
         IN IF ch = " "
            THEN SlotsAndButtonsCommaButton(normalized, i + 1,
                     Append(newSlots, [index |-> Len(newSlots), type |-> "space",
                                       char |-> " ", sourceButtonId |-> -1]),
                     letterButtons)
            ELSE SlotsAndButtonsCommaButton(normalized, i + 1,
                     Append(newSlots, [index |-> Len(newSlots), type |-> "letter",
                                       char |-> "null", sourceButtonId |-> -1]),
                     Append(letterButtons, [id |-> Len(letterButtons), char |-> ch]))

RECURSIVE SlotsAndButtons(_, _, _, _)
SlotsAndButtons(normalized, i, newSlots, letterButtons) ==
    \* the for loop over the characters of the normalized target, from 1-based position i
    IF i > Len(normalized) THEN [slots |-> newSlots, letters |-> letterButtons]
    ELSE LET ch == normalized[i]
         IN IF ch = " "
            THEN SlotsAndButtons(normalized, i + 1,
                     Append(newSlots, [index |-> Len(newSlots), type |-> "space",
                                       char |-> " ", sourceButtonId |-> -1]),
                     letterButtons)
            ELSE IF ch = ","
            THEN SlotsAndButtons(normalized, i + 1,
                     Append(newSlots, [index |-> Len(newSlots), type |-> "letter",
                                       char |-> ",", sourceButtonId |-> -1]),
                     letterButtons)
            ELSE SlotsAndButtons(normalized, i + 1,
                     Append(newSlots, [index |-> Len(newSlots), type |-> "letter",
                                       char |-> "null", sourceButtonId |-> -1]),
                     Append(letterButtons, [id |-> Len(letterButtons), char |-> ch]))

FixFirstLetter(built) ==
    \* settings.showFirstLetter: the first letter slot takes the first button
    LET firstLetterSlotIndex == FindIndex([n \in 1..Len(built.slots) |-> built.slots[n].type = "letter"])
    IN IF firstLetterSlotIndex # -1 /\ Len(built.letters) > 0
       THEN [built EXCEPT !.slots[firstLetterSlotIndex + 1].char = built.letters[1].char,
                          !.slots[firstLetterSlotIndex + 1].sourceButtonId = built.letters[1].id]
       ELSE built

BuildSlotsAndLetters(word, showFirstLetter) ==
    \* the set of outcomes [slots, letters]; the buttons are shuffled
    LET built  == SlotsAndButtons(Lower(Trim(word.word_en)), 1, <<>>, <<>>)
        fixed  == IF showFirstLetter THEN FixFirstLetter(built) ELSE built
    IN {[slots |-> fixed.slots, letters |-> sh] : sh \in ShuffleArray(fixed.letters)}

BwCurrentWord ==
    \* <<w>> for the current word, <<>> for null
    IF bw.phase = "playing" /\ bw.currentIndex < Len(bw.questions)
    THEN <<bw.questions[bw.currentIndex + 1]>> ELSE <<>>

BwOthers == <<page, words, mc, cp, mp, fc, lw, call>>

BwSetStatus(choices) ==
    /\ page = "bw" /\ bw.phase = "setup"
    /\ \E s \in choices : bw' = [bw EXCEPT !.settings.status = s]
    /\ UNCHANGED <<BwOthers, statsPosts, statsReplies>>

BwSetGroup(choices) ==
    /\ page = "bw" /\ bw.phase = "setup"
    /\ \E g \in choices : bw' = [bw EXCEPT !.settings.groupId = g]
    /\ UNCHANGED <<BwOthers, statsPosts, statsReplies>>

BwSetQuestionCount ==
    /\ page = "bw" /\ bw.phase = "setup"
    /\ \E c \in QuestionCounts : bw' = [bw EXCEPT !.settings.questionCount = c]
    /\ UNCHANGED <<BwOthers, statsPosts, statsReplies>>

BwSetShowFirstLetter ==
    /\ page = "bw" /\ bw.phase = "setup"
    /\ bw' = [bw EXCEPT !.settings.showFirstLetter = ~@]
    /\ UNCHANGED <<BwOthers, statsPosts, statsReplies>>

BwSessionLimitOneShort(questionCount, available) ==
    \* a limit that cuts the session one item short
    Min(IF questionCount = ALL_POSSIBLE THEN available ELSE questionCount, available) - 1

BwSessionLimit(questionCount, available) ==
    Min(IF questionCount = ALL_POSSIBLE THEN available ELSE questionCount, available)

BwStartGameWithPoolKeepingMarks(st, pool) ==
    \* a start that leaves the mark-as-known selection of the previous session
    UNION {
      LET selected == Slice(shuffled, 0, BwSessionLimit(st.settings.questionCount, Len(shuffled)))
      IN IF Len(selected) = 0 THEN {[st EXCEPT !.error = "notEnoughWords"]}
         ELSE {[st EXCEPT !.questions = selected,
                          !.currentIndex = 0,
                          !.answers = <<>>,
                          !.correctCount = 0,
                          !.streak = 0,
                          !.bestStreak = 0,
                          !.feedback = "null",
                          !.selectedState = "idle",
                          !.onlyWrongRetry = FALSE,
                          !.error = "null",
                          !.phase = "playing",
                          !.slots = b.slots,
                          !.letters = b.letters]
               : b \in BuildSlotsAndLetters(selected[1], st.settings.showFirstLetter)}
      : shuffled \in ShuffleArray(pool) }

BwStartGameWithPool(st, pool) ==
    \* startGameWithPool and the effect that follows the phase change: the next states
    UNION {
      LET selected == Slice(shuffled, 0, BwSessionLimit(st.settings.questionCount, Len(shuffled)))
      IN IF Len(selected) = 0 THEN {[st EXCEPT !.error = "notEnoughWords"]}
         ELSE {[st EXCEPT !.questions = selected,
                          !.currentIndex = 0,
                          !.answers = <<>>,
                          !.correctCount = 0,
                          !.streak = 0,
                          !.bestStreak = 0,
                          !.feedback = "null",
                          !.selectedState = "idle",
                          !.selectedForMark = {},
                          !.onlyWrongRetry = FALSE,
                          !.error = "null",
                          !.phase = "playing",
                          !.slots = b.slots,
                          !.letters = b.letters]
               : b \in BuildSlotsAndLetters(selected[1], st.settings.showFirstLetter)}
      : shuffled \in ShuffleArray(pool) }

BwStartGameSilent(st) ==
    \* a start that starts nothing on an empty pool and reports nothing either
    LET pool == BwFilteredBaseWords(words, st.settings)
    IN IF Len(pool) = 0 THEN {st}
       ELSE BwStartGameWithPool(st, pool)

BwStartGame(st) ==
    \* handleStartGame on the state st: the set of next states
    LET pool == BwFilteredBaseWords(words, st.settings)
    IN IF Len(pool) = 0 THEN {[st EXCEPT !.error = "noWords"]}
       ELSE BwStartGameWithPool(st, pool)

BwHandleStartGame ==
    /\ page = "bw" /\ bw.phase = "setup"
    /\ bw' \in BwStartGame(bw)
    /\ statsPosts' = IF bw'.phase = "playing" THEN <<>> ELSE statsPosts
    /\ statsReplies' = IF bw'.phase = "playing" THEN <<>> ELSE statsReplies
    /\ UNCHANGED BwOthers

BwHandleRetryAll ==
    /\ page = "bw" /\ bw.phase = "results"
    /\ LET pool == BwFilteredBaseWords(words, bw.settings)
       IN /\ Len(pool) > 0
          /\ bw' \in BwStartGameWithPool(bw, pool)
    /\ statsPosts' = IF bw'.phase = "playing" THEN <<>> ELSE statsPosts
    /\ statsReplies' = IF bw'.phase = "playing" THEN <<>> ELSE statsReplies
    /\ UNCHANGED BwOthers

BwResults(st) ==
    \* the results memo: item idx takes the correct flag of answers[idx], false if absent
    IF st.phase # "results" THEN <<>>
    ELSE [i \in 1..Len(st.questions) |->
            [word |-> st.questions[i],
             correct |-> IF i <= Len(st.answers) THEN st.answers[i].correct ELSE FALSE]]

BwHandleRetryWrongOnlyRestarting ==
    \* a retry that falls back to the whole finished session when no word is wrong
    /\ page = "bw" /\ bw.phase = "results"
    /\ LET wrong      == SelectSeq(BwResults(bw), LAMBDA r : ~r.correct)
           wrongWords == [i \in 1..Len(wrong) |-> wrong[i].word]
       IN bw' \in BwStartGameWithPool([bw EXCEPT !.onlyWrongRetry = TRUE],
                                      IF Len(wrongWords) = 0 THEN bw.questions ELSE wrongWords)
    /\ statsPosts' = IF bw'.phase = "playing" THEN <<>> ELSE statsPosts
    /\ statsReplies' = IF bw'.phase = "playing" THEN <<>> ELSE statsReplies
    /\ UNCHANGED BwOthers

BwHandleRetryWrongOnly ==
    /\ page = "bw" /\ bw.phase = "results"
    /\ LET wrong      == SelectSeq(BwResults(bw), LAMBDA r : ~r.correct)
           wrongWords == [i \in 1..Len(wrong) |-> wrong[i].word]
       IN IF Len(wrongWords) = 0
          THEN bw' = [bw EXCEPT !.error = "noWrongWords"]
          ELSE bw' \in BwStartGameWithPool([bw EXCEPT !.onlyWrongRetry = TRUE], wrongWords)
    /\ statsPosts' = IF bw'.phase = "playing" THEN <<>> ELSE statsPosts
    /\ statsReplies' = IF bw'.phase = "playing" THEN <<>> ELSE statsReplies
    /\ UNCHANGED BwOthers

IsButtonUsed(slots, btnId) == \E i \in 1..Len(slots) : slots[i].sourceButtonId = btnId

BwLetterClick(st, btn) ==
    LET targetIndex == FindIndex([n \in 1..Len(st.slots) |-> st.slots[n].type = "letter" /\ st.slots[n].char = "null"])
    IN IF st.selectedState # "idle" THEN st
       ELSE IF IsButtonUsed(st.slots, btn.id) THEN st
       ELSE IF targetIndex = -1 THEN st
       ELSE [st EXCEPT !.slots[targetIndex + 1].char = btn.char,
                       !.slots[targetIndex + 1].sourceButtonId = btn.id]

BwHandleLetterClick ==
    /\ page = "bw" /\ BwCurrentWord # <<>>
    /\ \E i \in 1..Len(bw.letters) :
         /\ ~(IsButtonUsed(bw.slots, bw.letters[i].id) \/ bw.selectedState # "idle")
         /\ bw' = BwLetterClick(bw, bw.letters[i])
    /\ UNCHANGED <<BwOthers, statsPosts, statsReplies>>

BwSlotClick(st, slot) ==
    LET idx == FindIndex([n \in 1..Len(st.slots) |-> st.slots[n].index = slot.index])
    IN IF st.selectedState # "idle" THEN st
       ELSE IF slot.type # "letter" \/ slot.char = "null" THEN st
       ELSE IF idx = -1 THEN st
       ELSE [st EXCEPT !.slots[idx + 1].char = "null",
                       !.slots[idx + 1].sourceButtonId = -1]

BwHandleSlotClick ==
    /\ page = "bw" /\ BwCurrentWord # <<>>
    /\ \E i \in 1..Len(bw.slots) :
         /\ bw.slots[i].type # "space"
         /\ bw.selectedState = "idle"
         /\ bw' = BwSlotClick(bw, bw.slots[i])
    /\ UNCHANGED <<BwOthers, statsPosts, statsReplies>>

BwResetDisabled(st) ==
    \A i \in 1..Len(st.slots) : st.slots[i].type = "space" \/ st.slots[i].char = "null"

BwHandleResetWord ==
    /\ page = "bw" /\ BwCurrentWord # <<>>
    /\ ~BwResetDisabled(bw)
    /\ \E b \in BuildSlotsAndLetters(BwCurrentWord[1], bw.settings.showFirstLetter) :
         bw' = [bw EXCEPT !.slots = b.slots, !.letters = b.letters,
                          !.selectedState = "idle", !.feedback = "null"]
    /\ UNCHANGED <<BwOthers, statsPosts, statsReplies>>

RemoveWhitespace(text) == SelectSeq(text, LAMBDA ch : ~IsWhitespace(ch))

BwAnswerLetters(slots) ==
    \* the chars of the letter slots, '' (here "null") for an empty one
    LET letterSlots == SelectSeq(slots, LAMBDA s : s.type = "letter")
    IN [i \in 1..Len(letterSlots) |-> letterSlots[i].char]

BwIsCorrectKeepingSpaces(slots, word) ==
    \* a comparison that leaves the whitespace in the target
    Lower(BwAnswerLetters(slots)) = Lower(word.word_en)

BwHasEmptyLetterNever(answerLetters) ==
    \* a check that takes every slot set for complete
    FALSE

BwHasEmptyLetter(answerLetters) ==
    \* answerLetters.some((ch) => !ch)
    \E i \in 1..Len(answerLetters) : answerLetters[i] = "null"

BwIsCorrect(slots, word) ==
    Lower(BwAnswerLetters(slots)) = RemoveWhitespace(Lower(word.word_en))

BwCheck(st, word) ==
    LET answerLetters == BwAnswerLetters(st.slots)
        isCorrect     == BwIsCorrect(st.slots, word)
        newStreak     == st.streak + 1
    IN IF st.selectedState # "idle" THEN st
       ELSE IF BwHasEmptyLetter(answerLetters)
       THEN [st EXCEPT !.feedback = "fillAllLetters"]
       ELSE IF isCorrect
       THEN [st EXCEPT !.selectedState = "correct",
                       !.feedback = "correct",
                       !.answers = Append(@, [wordId |-> word.id, correct |-> TRUE]),
                       !.correctCount = @ + 1,
                       !.streak = newStreak,
                       !.bestStreak = Max(@, newStreak)]
       ELSE [st EXCEPT !.selectedState = "wrong",
                       !.feedback = "wrong",
                       !.answers = Append(@, [wordId |-> word.id, correct |-> FALSE]),
                       !.streak = 0]

BwHandleCheck ==
    /\ page = "bw" /\ BwCurrentWord # <<>>
    /\ bw.selectedState = "idle"
    /\ Len(bw.answers) < MaxAnswers
    /\ bw' = BwCheck(bw, BwCurrentWord[1])
    /\ UNCHANGED <<BwOthers, statsPosts, statsReplies>>

BwStatsRequestPerAnswer(gameAnswers) ==
    \* a reporter that posts every Answer Record on its own
    [k \in 1..Len(gameAnswers) |->
        [url |-> "/stats/bulk",
         body |-> [entries |-> << [wordId |-> gameAnswers[k].wordId,
                                   gameType |-> "build_word",
                                   correct |-> gameAnswers[k].correct] >>]]]

BwStatsRequest(gameAnswers) ==
    \* statsMutation.mutationFn: the requests it issues
    IF Len(gameAnswers) = 0 THEN <<>>
    ELSE << [url |-> "/stats/bulk",
             body |-> [entries |-> [k \in 1..Len(gameAnswers) |->
                                      [wordId |-> gameAnswers[k].wordId,
                                       gameType |-> "build_word",
                                       correct |-> gameAnswers[k].correct]]]] >>

BwHandleNext ==
    /\ page = "bw" /\ BwCurrentWord # <<>>
    /\ bw.selectedState # "idle"
    /\ IF bw.currentIndex + 1 >= Len(bw.questions)
       THEN /\ bw' = [bw EXCEPT !.phase = "results"]
            /\ statsPosts' = statsPosts \o BwStatsRequest(bw.answers)
       ELSE /\ \E b \in BuildSlotsAndLetters(bw.questions[bw.currentIndex + 2],
                                             bw.settings.showFirstLetter) :
                 bw' = [bw EXCEPT !.currentIndex = @ + 1,
                                  !.slots = b.slots, !.letters = b.letters,
                                  !.selectedState = "idle", !.feedback = "null"]
            /\ UNCHANGED statsPosts
    /\ UNCHANGED <<BwOthers, statsReplies>>

BwStatsSettled ==
    \* the mutation's request succeeds or fails: mutate() has no callbacks and the
    \* page reads nothing of the mutation's state
    /\ page = "bw"
    /\ Len(statsReplies) < Len(statsPosts)
    /\ \E reply \in {"ok", "failed"} : statsReplies' = Append(statsReplies, reply)
    /\ UNCHANGED <<BwOthers, bw, statsPosts>>

BwHandleToggleMark ==
    /\ page = "bw" /\ bw.phase = "results"
    /\ \E i \in 1..Len(bw.questions) :
         LET wordId == bw.questions[i].id
         IN bw' = [bw EXCEPT !.selectedForMark =
                      IF wordId \in @ THEN @ \ {wordId} ELSE @ \cup {wordId}]
    /\ UNCHANGED <<BwOthers, statsPosts, statsReplies>>

BwChangeSettings ==
    /\ page = "bw" /\ bw.phase = "results"
    /\ bw' = [bw EXCEPT !.phase = "setup"]
    /\ UNCHANGED <<BwOthers, statsPosts, statsReplies>>

BwNext ==
    \/ BwSetStatus(PlayStatusFilters)
    \/ BwSetGroup(PlayGroupFilters)
    \/ BwSetQuestionCount
    \/ BwSetShowFirstLetter
    \/ BwHandleStartGame
    \/ BwHandleRetryAll
    \/ BwHandleRetryWrongOnly
    \/ BwHandleLetterClick
    \/ BwHandleSlotClick
    \/ BwHandleResetWord
    \/ BwHandleCheck
    \/ BwHandleNext
    \/ BwStatsSettled
    \/ BwHandleToggleMark
    \/ BwChangeSettings

-----------------------------------------------------------------------------
(* Column pairs *)

CpInit ==
    [ phase           |-> "setup",
      settings        |-> [groupId |-> ALL, status |-> "all", pairCount |-> 6],
      gameWords       |-> <<>>,
      leftOrder       |-> <<>>,
      rightOrder      |-> <<>>,
      pairs           |-> <<>>,
      selectedLeftId  |-> -1,
      selectedRightId |-> -1,
      answers         |-> <<>>,
      correctCount    |-> 0,
      error           |-> "null",
      selectedForMark |-> {} ]

CpOthers == <<page, words, mc, bw, mp, fc, lw, call>>

CpSetStatus(choices) ==
    /\ page = "cp" /\ cp.phase = "setup"
    /\ \E s \in choices : cp' = [cp EXCEPT !.settings.status = s]
    /\ UNCHANGED <<CpOthers, statsPosts, statsReplies>>

CpSetGroup(choices) ==
    /\ page = "cp" /\ cp.phase = "setup"
    /\ \E g \in choices : cp' = [cp EXCEPT !.settings.groupId = g]
    /\ UNCHANGED <<CpOthers, statsPosts, statsReplies>>

CpSetPairCount ==
    /\ page = "cp" /\ cp.phase = "setup"
    /\ \E c \in PairCounts : cp' = [cp EXCEPT !.settings.pairCount = c]
    /\ UNCHANGED <<CpOthers, statsPosts, statsReplies>>

Ids(ws) == [i \in 1..Len(ws) |-> ws[i].id]

CpStartGame(st) ==
    \* startGame on the state st: the set of next states
    LET pool  == CpFilteredWords(words, st.settings)
        count == Min(st.settings.pairCount, Len(pool))
    IN IF Len(pool) = 0 THEN {[st EXCEPT !.error = "noWords"]}
       ELSE IF count < MIN_PAIRS THEN {[st EXCEPT !.error = "needTwoWords"]}
       ELSE UNION {
              LET selected == Slice(shuffled, 0, count)
              IN {[st EXCEPT !.error = "null",
                             !.gameWords = selected,
                             !.leftOrder = lo,
                             !.rightOrder = ro,
                             !.pairs = <<>>,
                             !.selectedLeftId = -1,
                             !.selectedRightId = -1,
                             !.answers = <<>>,
                             !.correctCount = 0,
                             !.selectedForMark = {},
                             !.phase = "playing"]
                  : lo \in ShuffleArray(Ids(selected)), ro \in ShuffleArray(Ids(selected))}
              : shuffled \in ShuffleArray(pool) }

CpHandleStartGame ==
    /\ page = "cp" /\ cp.phase = "setup"
    /\ Len(CpFilteredWords(words, cp.settings)) >= 2
    /\ cp' \in CpStartGame(cp)
    /\ statsPosts' = IF cp'.phase = "playing" THEN <<>> ELSE statsPosts
    /\ statsReplies' = IF cp'.phase = "playing" THEN <<>> ELSE statsReplies
    /\ UNCHANGED CpOthers

CpHandleRetry ==
    /\ page = "cp" /\ cp.phase = "results"
    /\ cp' \in CpStartGame(cp)
    /\ statsPosts' = IF cp'.phase = "playing" THEN <<>> ELSE statsPosts
    /\ statsReplies' = IF cp'.phase = "playing" THEN <<>> ELSE statsReplies
    /\ UNCHANGED CpOthers

IsWordPaired(pairs, id) ==
    \E i \in 1..Len(pairs) : pairs[i].leftId = id \/ pairs[i].rightId = id

CpClickLeftKeepingSelection(st, id) ==
    \* a left click that commits the pair and leaves the right selection in place
    IF st.phase # "playing" THEN st
    ELSE IF IsWordPaired(st.pairs, id) THEN st
    ELSE IF st.selectedRightId # -1 /\ ~IsWordPaired(st.pairs, st.selectedRightId)
    THEN [st EXCEPT !.pairs = Append(@, [leftId |-> id, rightId |-> st.selectedRightId]),
                    !.selectedLeftId = -1]
    ELSE [st EXCEPT !.selectedLeftId = IF @ = id THEN -1 ELSE id]

CpClickLeft(st, id) ==
    IF st.phase # "playing" THEN st
    ELSE IF IsWordPaired(st.pairs, id) THEN st
    ELSE IF st.selectedRightId # -1 /\ ~IsWordPaired(st.pairs, st.selectedRightId)
    THEN [st EXCEPT !.pairs = Append(@, [leftId |-> id, rightId |-> st.selectedRightId]),
                    !.selectedLeftId = -1,
                    !.selectedRightId = -1]
    ELSE [st EXCEPT !.selectedLeftId = IF @ = id THEN -1 ELSE id]

CpHandleClickLeft ==
    /\ page = "cp" /\ cp.phase = "playing"
    /\ \E i \in 1..Len(cp.leftOrder) :
         /\ ~IsWordPaired(cp.pairs, cp.leftOrder[i])
         /\ cp' = CpClickLeft(cp, cp.leftOrder[i])
    /\ UNCHANGED <<CpOthers, statsPosts, statsReplies>>

CpClickRight(st, id) ==
    IF st.phase # "playing" THEN st
    ELSE IF IsWordPaired(st.pairs, id) THEN st
    ELSE IF st.selectedLeftId # -1 /\ ~IsWordPaired(st.pairs, st.selectedLeftId)
    THEN [st EXCEPT !.pairs = Append(@, [leftId |-> st.selectedLeftId, rightId |-> id]),
                    !.selectedLeftId = -1,
                    !.selectedRightId = -1]
    ELSE [st EXCEPT !.selectedRightId = IF @ = id THEN -1 ELSE id]

CpHandleClickRight ==
    /\ page = "cp" /\ cp.phase = "playing"
    /\ \E i \in 1..Len(cp.rightOrder) :
         /\ ~IsWordPaired(cp.pairs, cp.rightOrder[i])
         /\ cp' = CpClickRight(cp, cp.rightOrder[i])
    /\ UNCHANGED <<CpOthers, statsPosts, statsReplies>>

CpHandleClearPairs ==
    /\ page = "cp" /\ cp.phase = "playing"
    /\ cp' = [cp EXCEPT !.pairs = <<>>, !.selectedLeftId = -1, !.selectedRightId = -1]
    /\ UNCHANGED <<CpOthers, statsPosts, statsReplies>>

CpPairIsCorrect(pairs, id) ==
    \* pairs.find(p => p.leftId === id || p.rightId === id), then leftId === rightId
    LET k == FindIndex([n \in 1..Len(pairs) |-> pairs[n].leftId = id \/ pairs[n].rightId = id])
    IN k # -1 /\ pairs[k + 1].leftId = pairs[k + 1].rightId

CpNewAnswers(gameWords, pairs) ==
    [i \in 1..Len(gameWords) |->
        [wordId |-> gameWords[i].id, correct |-> CpPairIsCorrect(pairs, gameWords[i].id)]]

CpIsAllPaired(st) ==
    st.phase = "playing" /\ Len(st.gameWords) > 0 /\ Len(st.pairs) = Len(st.gameWords)

CpStatsRequest(newAnswers) ==
    [url |-> "/stats",
     body |-> [game_type |-> "column_pairs",
               answers |-> [k \in 1..Len(newAnswers) |->
                              [word_id |-> newAnswers[k].wordId,
                               is_correct |-> IF newAnswers[k].correct THEN 1 ELSE 0]]]]

CpHandleCheck ==
    /\ page = "cp" /\ CpIsAllPaired(cp)
    /\ Len(cp.pairs) = Len(cp.gameWords)
    /\ LET newAnswers == CpNewAnswers(cp.gameWords, cp.pairs)
       IN /\ cp' = [cp EXCEPT !.correctCount =
                                 Cardinality({i \in 1..Len(newAnswers) : newAnswers[i].correct}),
                              !.answers = newAnswers,
                              !.phase = "results"]
          /\ statsPosts' = Append(statsPosts, CpStatsRequest(newAnswers))
    /\ UNCHANGED <<CpOthers, statsReplies>>

CpStatsSettled ==
    \* await api.post resolves, or rejects into the catch block: console.warn
    /\ page = "cp"
    /\ Len(statsReplies) < Len(statsPosts)
    /\ \E reply \in {"ok", "failed"} : statsReplies' = Append(statsReplies, reply)
    /\ UNCHANGED <<CpOthers, cp, statsPosts>>

CpHandleToggleMark ==
    /\ page = "cp" /\ cp.phase = "results"
    /\ \E i \in 1..Len(cp.gameWords) :
         LET wordId == cp.gameWords[i].id
         IN cp' = [cp EXCEPT !.selectedForMark =
                      IF wordId \in @ THEN @ \ {wordId} ELSE @ \cup {wordId}]
    /\ UNCHANGED <<CpOthers, statsPosts, statsReplies>>

CpChangeSettings ==
    /\ page = "cp" /\ cp.phase = "results"
    /\ cp' = [cp EXCEPT !.phase = "setup"]
    /\ UNCHANGED <<CpOthers, statsPosts, statsReplies>>

CpNext ==
    \/ CpSetStatus(PlayStatusFilters)
    \/ CpSetGroup(PlayGroupFilters)
    \/ CpSetPairCount
    \/ CpHandleStartGame
    \/ CpHandleRetry
    \/ CpHandleClickLeft
    \/ CpHandleClickRight
    \/ CpHandleClearPairs
    \/ CpHandleCheck
    \/ CpStatsSettled
    \/ CpHandleToggleMark
    \/ CpChangeSettings

-----------------------------------------------------------------------------
(* Matching pairs *)

NoStats == [i \in 1..MaxWords |-> [wrong |-> 0, correct |-> 0]]

MpInit ==
    [ phase          |-> "config",
      mode           |-> "en-uk",
      groupId        |-> ALL,
      pairsCount     |-> 6,
      cards          |-> <<>>,
      flipped        |-> <<>>,
      matchedWordIds |-> <<>>,     \* a Set, in insertion order
      wordStats      |-> NoStats,  \* a missing key reads as {wrong: 0, correct: 0}
      moves          |-> 0,
      results        |-> <<>>,
      savingStats    |-> FALSE,
      timers         |-> 0 ]       \* pending setTimeout(() => setFlipped([])) callbacks

MpOthers == <<page, words, mc, bw, cp, fc, lw, call>>

MpAvailableWords(ws, groupId) ==
    LET list == SelectSeq(ws, LAMBDA w : Truthy(w.translation_uk) /\ Truthy(w.word_en))
    IN IF groupId # ALL THEN SelectSeq(list, LAMBDA w : w.group_id = groupId) ELSE list

RECURSIVE Orderings(_)
Orderings(s) ==
    \* every order of the items of s
    IF Len(s) <= 1 THEN {s}
    ELSE UNION {{<<s[i]>> \o rest :
                   rest \in Orderings(SubSeq(s, 1, i - 1) \o SubSeq(s, i + 1, Len(s)))}
                : i \in 1..Len(s)}

SortShuffle(arr) ==
    \* [...arr].sort(() => Math.random() - 0.5): some order of the same items
    Orderings(arr)

RECURSIVE MpNewCards(_, _)
MpNewCards(selected, mode) ==
    IF selected = <<>> THEN <<>>
    ELSE LET word == selected[1]
             en == [id |-> <<word.id, "en">>, wordId |-> word.id, side |-> "en",
                    text |-> word.word_en]
             uk == [id |-> <<word.id, "uk">>, wordId |-> word.id, side |-> "uk",
                    text |-> word.translation_uk]
         IN (IF mode = "en-uk" THEN <<en, uk>> ELSE <<uk, en>>)
            \o MpNewCards(Tail(selected), mode)

MpSetMode ==
    /\ page = "mp" /\ mp.phase = "config"
    /\ \E m \in {"en-uk", "uk-en"} : mp' = [mp EXCEPT !.mode = m]
    /\ UNCHANGED <<MpOthers, statsPosts, statsReplies>>

MpSetGroup(choices) ==
    /\ page = "mp" /\ mp.phase = "config"
    /\ \E g \in choices : mp' = [mp EXCEPT !.groupId = g]
    /\ UNCHANGED <<MpOthers, statsPosts, statsReplies>>

MpSetPairsCount ==
    /\ page = "mp" /\ mp.phase = "config"
    /\ \E c \in {2, 6} : mp' = [mp EXCEPT !.pairsCount = Max(MP_MIN_PAIRS, c)]
    /\ UNCHANGED <<MpOthers, statsPosts, statsReplies>>

MpHandleStart ==
    /\ page = "mp" /\ mp.phase = "config"
    /\ LET availableWords == MpAvailableWords(words, mp.groupId)
           maxPairs == Min(mp.pairsCount, Len(availableWords))
       IN /\ Len(availableWords) >= MP_MIN_PAIRS
          /\ \E sh \in SortShuffle(availableWords) :
               \E cards \in SortShuffle(MpNewCards(Slice(sh, 0, maxPairs), mp.mode)) :
                 mp' = [mp EXCEPT !.cards = cards,
                                  !.flipped = <<>>,
                                  !.matchedWordIds = <<>>,
                                  !.wordStats = NoStats,
                                  !.moves = 0,
                                  !.results = <<>>,
                                  !.phase = "playing"]
    /\ statsPosts' = <<>>
    /\ statsReplies' = <<>>
    /\ UNCHANGED MpOthers

MpIsMatchBySide(c1, c2) ==
    \* a comparison of the sides alone
    c1.side # c2.side

MpIsMatch(c1, c2) == c1.wordId = c2.wordId /\ c1.side # c2.side

MpFinishOnFirstMatch(st) ==
    \* an effect that ends the game as soon as one pair is matched
    IF st.phase = "playing" /\ Len(st.cards) # 0 /\ Len(st.matchedWordIds) # 0
    THEN [st EXCEPT !.results =
                      [k \in 1..Len(st.matchedWordIds) |->
                         [word |-> words[st.matchedWordIds[k]],
                          isCorrect |-> st.wordStats[st.matchedWordIds[k]].wrong = 0]],
                    !.phase = "finished"]
    ELSE st

MpFinish(st) ==
    \* the effect that ends the game once every pair is matched
    IF /\ st.phase = "playing"
       /\ Len(st.cards) # 0
       /\ Len(st.matchedWordIds) # 0
       /\ 2 * Len(st.matchedWordIds) = Len(st.cards)
    THEN [st EXCEPT !.results =
                      [k \in 1..Len(st.matchedWordIds) |->
                         [word |-> words[st.matchedWordIds[k]],
                          isCorrect |-> st.wordStats[st.matchedWordIds[k]].wrong = 0]],
                    !.phase = "finished"]
    ELSE st

MpCardClick(st, index) ==
    \* handleCardClick(index), index 0-based, and the effect that follows the render
    LET newFlipped == Append(st.flipped, index)
        c1 == st.cards[newFlipped[1] + 1]
        c2 == st.cards[newFlipped[2] + 1]
    IN IF st.phase # "playing" THEN st
       ELSE IF index \in Range(st.flipped) THEN st
       ELSE IF index >= Len(st.cards) THEN st
       ELSE IF st.cards[index + 1].wordId \in Range(st.matchedWordIds) THEN st
       ELSE IF Len(newFlipped) # 2 THEN [st EXCEPT !.flipped = newFlipped]
       ELSE IF MpIsMatch(c1, c2)
       THEN MpFinish([st EXCEPT !.flipped = newFlipped,
                                !.moves = @ + 1,
                                !.matchedWordIds = Append(@, c1.wordId),
                                !.wordStats[c1.wordId].correct = @ + 1,
                                !.timers = @ + 1])
       ELSE [st EXCEPT !.flipped = newFlipped,
                       !.moves = @ + 1,
                       !.wordStats = [id \in DOMAIN @ |->
                                        IF id \in {c1.wordId, c2.wordId}
                                        THEN [@[id] EXCEPT !.wrong = @ + 1] ELSE @[id]],
                       !.timers = @ + 1]

MpHandleCardClick ==
    /\ page = "mp" /\ mp.phase = "playing"
    /\ \E index \in 0..(Len(mp.cards) - 1) :
         /\ mp.cards[index + 1].wordId \notin Range(mp.matchedWordIds)
         /\ Len(mp.flipped) = 1 => (mp.moves < MaxMoves /\ mp.timers < MaxTimers)
         /\ mp' = MpCardClick(mp, index)
    /\ UNCHANGED <<MpOthers, statsPosts, statsReplies>>

MpFlipBack ==
    \* a flip-back timer fires
    /\ page = "mp" /\ mp.timers > 0
    /\ mp' = [mp EXCEPT !.flipped = <<>>, !.timers = @ - 1]
    /\ UNCHANGED <<MpOthers, statsPosts, statsReplies>>

MpStatsRequest(results) ==
    [url |-> "/stats/batch",
     body |-> [gameType |-> "matching_pairs",
               results |-> [k \in 1..Len(results) |->
                              [wordId |-> results[k].word.id,
                               isCorrect |-> results[k].isCorrect]]]]

MpHandleSaveStats ==
    /\ page = "mp" /\ mp.phase = "finished"
    /\ ~mp.savingStats
    /\ Len(mp.results) # 0
    /\ Len(statsPosts) < MaxSaves
    /\ mp' = [mp EXCEPT !.savingStats = TRUE]
    /\ statsPosts' = Append(statsPosts, MpStatsRequest(mp.results))
    /\ UNCHANGED <<MpOthers, statsReplies>>

MpSaveStatsStuck ==
    \* a handler without the finally block: a failed request leaves savingStats set
    /\ page = "mp" /\ mp.savingStats
    /\ \E reply \in {"ok", "failed"} :
         /\ mp' = [mp EXCEPT !.savingStats = (reply = "failed")]
         /\ statsReplies' = IF Len(statsReplies) < Len(statsPosts)
                            THEN Append(statsReplies, reply) ELSE statsReplies
    /\ UNCHANGED <<MpOthers, statsPosts>>

MpSaveStatsSettled ==
    \* the request succeeds, or fails into the catch: finally { setSavingStats(false) };
    \* a request of an earlier game has no entry in statsPosts any more
    /\ page = "mp" /\ mp.savingStats
    /\ \E reply \in {"ok", "failed"} :
         /\ mp' = [mp EXCEPT !.savingStats = FALSE]
         /\ statsReplies' = IF Len(statsReplies) < Len(statsPosts)
                            THEN Append(statsReplies, reply) ELSE statsReplies
    /\ UNCHANGED <<MpOthers, statsPosts>>

MpError(st) ==
    \* the page keeps no error state and renders no error message
    "null"

MpReplay(st, onlyWrong) ==
    \* handleReplay(onlyWrong): the next states
    LET wrongWordIds   == {st.results[k].word.id :
                             k \in {j \in 1..Len(st.results) : ~st.results[j].isCorrect}}
        availableWords == MpAvailableWords(words, st.groupId)
        wrongWords     == SelectSeq(availableWords, LAMBDA w : w.id \in wrongWordIds)
    IN IF Len(st.results) = 0 THEN {[st EXCEPT !.phase = "config"]}
       ELSE IF ~onlyWrong THEN {[st EXCEPT !.phase = "config"]}
       ELSE IF wrongWordIds = {} THEN {[st EXCEPT !.phase = "config"]}
       ELSE {[st EXCEPT !.cards = cards,
                        !.flipped = <<>>,
                        !.matchedWordIds = <<>>,
                        !.wordStats = NoStats,
                        !.moves = 0,
                        !.results = <<>>,
                        !.phase = "playing"]
             : cards \in SortShuffle(MpNewCards(wrongWords, "en-uk"))}

MpHandleReplay ==
    \* handleReplay(false), the only call the page makes
    /\ page = "mp" /\ mp.phase = "finished"
    /\ mp' \in MpReplay(mp, FALSE)
    /\ UNCHANGED <<MpOthers, statsPosts, statsReplies>>

MpNext ==
    \/ MpSetMode
    \/ MpSetGroup(PlayGroupFilters)
    \/ MpSetPairsCount
    \/ MpHandleStart
    \/ MpHandleCardClick
    \/ MpFlipBack
    \/ MpHandleSaveStats
    \/ MpSaveStatsSettled
    \/ MpHandleReplay

-----------------------------------------------------------------------------
(* Flashcards *)

FcInit ==
    [ phase           |-> "setup",
      settings        |-> [groupId |-> ALL, status |-> "all", order |-> "asIs",
                           sideFirst |-> "en"],
      deck            |-> <<>>,
      currentIndex    |-> 0,
      isFlipped       |-> FALSE,
      results         |-> <<>>,
      error           |-> "null",
      selectedForMark |-> {},
      touchRef        |-> <<>> ]   \* <<>> is null, otherwise <<[dx, dy, isSwipe]>>

FcOthers == <<page, words, mc, bw, cp, mp, lw, statsPosts, statsReplies, call>>

FcFilteredWords(ws, settings) ==
    \* the memo before its shuffle: handleStart shuffles a random order again
    LET byGroup == IF settings.groupId # ALL
                   THEN SelectSeq(ws, LAMBDA w : w.group_id = settings.groupId)
                   ELSE ws
    IN IF settings.status # "all"
       THEN SelectSeq(byGroup, LAMBDA w : w.status = settings.status)
       ELSE byGroup

FcCurrentWord ==
    IF fc.phase = "playing" /\ Len(fc.deck) > 0 /\ fc.currentIndex < Len(fc.deck)
    THEN <<fc.deck[fc.currentIndex + 1]>> ELSE <<>>

FcSetStatus(choices) ==
    /\ page = "fc" /\ fc.phase = "setup"
    /\ \E s \in choices : fc' = [fc EXCEPT !.settings.status = s]
    /\ UNCHANGED FcOthers

FcSetGroup(choices) ==
    /\ page = "fc" /\ fc.phase = "setup"
    /\ \E g \in choices : fc' = [fc EXCEPT !.settings.groupId = g]
    /\ UNCHANGED FcOthers

FcSetOrder ==
    /\ page = "fc" /\ fc.phase = "setup"
    /\ \E o \in {"asIs", "random"} : fc' = [fc EXCEPT !.settings.order = o]
    /\ UNCHANGED FcOthers

\* the options of the "side first" select
SideFirstChoices == {"en", "uk", "random"}

FcFrontSide(st) ==
    \* the side the front face of the card renders
    IF st.settings.sideFirst = "uk" THEN "uk" ELSE "en"

FcSetSideFirst ==
    /\ page = "fc" /\ fc.phase = "setup"
    /\ \E sd \in SideFirstChoices : fc' = [fc EXCEPT !.settings.sideFirst = sd]
    /\ UNCHANGED FcOthers

FcStart(st) ==
    LET filteredWords == FcFilteredWords(words, st.settings)
    IN IF Len(filteredWords) = 0 THEN {[st EXCEPT !.error = "noWords"]}
       ELSE {[st EXCEPT !.error = "null",
                        !.deck = newDeck,
                        !.currentIndex = 0,
                        !.isFlipped = FALSE,
                        !.results = <<>>,
                        !.selectedForMark = {},
                        !.phase = "playing"]
             : newDeck \in IF st.settings.order = "random"
                           THEN ShuffleArray(filteredWords) ELSE {filteredWords}}

FcHandleStart ==
    /\ page = "fc" /\ fc.phase = "setup"
    /\ Len(FcFilteredWords(words, fc.settings)) # 0
    /\ fc' \in FcStart(fc)
    /\ UNCHANGED FcOthers

FcHandleRetry ==
    /\ page = "fc" /\ fc.phase = "results"
    /\ fc' \in FcStart(fc)
    /\ UNCHANGED FcOthers

FcHandleFlip ==
    /\ page = "fc" /\ FcCurrentWord # <<>>
    /\ fc' = [fc EXCEPT !.isFlipped = ~@]
    /\ UNCHANGED FcOthers

FcRegisterResultThenSetup(st, currentWord, result) ==
    \* a progression that leaves the last card for the setup view
    IF currentWord = <<>> THEN st
    ELSE LET nextIndex == st.currentIndex + 1
             recorded  == [st EXCEPT !.results = Append(@, [word |-> currentWord[1],
                                                            result |-> result])]
         IN IF nextIndex >= Len(st.deck)
            THEN [recorded EXCEPT !.phase = "setup"]
            ELSE [recorded EXCEPT !.currentIndex = nextIndex, !.isFlipped = FALSE]

FcRegisterResultAndNext(st, currentWord, result) ==
    IF currentWord = <<>> THEN st
    ELSE LET nextIndex == st.currentIndex + 1
             recorded  == [st EXCEPT !.results = Append(@, [word |-> currentWord[1],
                                                            result |-> result])]
         IN IF nextIndex >= Len(st.deck)
            THEN [recorded EXCEPT !.phase = "results"]
            ELSE [recorded EXCEPT !.currentIndex = nextIndex, !.isFlipped = FALSE]

FcHandleButton ==
    \* handleKnown, handleUnknown, handleSkip
    /\ page = "fc" /\ FcCurrentWord # <<>>
    /\ \E result \in {"known", "unknown", "skipped"} :
         fc' = FcRegisterResultAndNext(fc, FcCurrentWord, result)
    /\ UNCHANGED FcOthers

FcHandleTouchStart ==
    /\ page = "fc" /\ FcCurrentWord # <<>>
    /\ fc' = [fc EXCEPT !.touchRef = <<[dx |-> 0, dy |-> 0, isSwipe |-> FALSE]>>]
    /\ UNCHANGED FcOthers

Abs(x) == IF x < 0 THEN 0 - x ELSE x

FcTouchMoveUnlatched(st, currentWord, dx, dy) ==
    \* a move handler that never marks the gesture as a recognised swipe
    IF st.touchRef = <<>> THEN st
    ELSE IF Abs(dx) > SWIPE_THRESHOLD /\ Abs(dx) > Abs(dy)
    THEN FcRegisterResultAndNext(
             [st EXCEPT !.touchRef = <<[dx |-> dx, dy |-> dy, isSwipe |-> FALSE]>>],
             currentWord, IF dx < 0 THEN "unknown" ELSE "known")
    ELSE [st EXCEPT !.touchRef[1].dx = dx, !.touchRef[1].dy = dy]

FcTouchMove(st, currentWord, dx, dy) ==
    IF st.touchRef = <<>> THEN st
    ELSE IF st.touchRef[1].isSwipe
    THEN [st EXCEPT !.touchRef[1].dx = dx, !.touchRef[1].dy = dy]
    ELSE IF Abs(dx) > SWIPE_THRESHOLD /\ Abs(dx) > Abs(dy)
    THEN FcRegisterResultAndNext(
             [st EXCEPT !.touchRef = <<[dx |-> dx, dy |-> dy, isSwipe |-> TRUE]>>],
             currentWord, IF dx < 0 THEN "unknown" ELSE "known")
    ELSE [st EXCEPT !.touchRef[1].dx = dx, !.touchRef[1].dy = dy]

TouchMoves ==
    \* <<dx, dy>> of a move: left, right, at the threshold, more vertical than horizontal
    {<<0 - 80, 0>>, <<80, 0>>, <<SWIPE_THRESHOLD, 0>>, <<80, 100>>}

FcHandleTouchMove ==
    /\ page = "fc" /\ FcCurrentWord # <<>>
    /\ \E d \in TouchMoves : fc' = FcTouchMove(fc, FcCurrentWord, d[1], d[2])
    /\ UNCHANGED FcOthers

FcHandleTouchEnd ==
    /\ page = "fc" /\ FcCurrentWord # <<>>
    /\ fc' = [fc EXCEPT !.touchRef = <<>>]
    /\ UNCHANGED FcOthers

FcHandleToggleMark ==
    /\ page = "fc" /\ fc.phase = "results"
    /\ \E i \in 1..Len(fc.results) :
         LET wordId == fc.results[i].word.id
         IN fc' = [fc EXCEPT !.selectedForMark =
                      IF wordId \in @ THEN @ \ {wordId} ELSE @ \cup {wordId}]
    /\ UNCHANGED FcOthers

FcChangeSettings ==
    /\ page = "fc" /\ fc.phase = "results"
    /\ fc' = [fc EXCEPT !.phase = "setup"]
    /\ UNCHANGED FcOthers

FcNext ==
    \/ FcSetStatus(PlayStatusFilters)
    \/ FcSetGroup(PlayGroupFilters)
    \/ FcSetOrder
    \/ FcSetSideFirst
    \/ FcHandleStart
    \/ FcHandleRetry
    \/ FcHandleFlip
    \/ FcHandleButton
    \/ FcHandleTouchStart
    \/ FcHandleTouchMove
    \/ FcHandleTouchEnd
    \/ FcHandleToggleMark
    \/ FcChangeSettings

-----------------------------------------------------------------------------
(* Listen words *)

\* a narration loop (one call of run) that is not running
IdleLoop == [pc |-> "idle", i |-> 0, w |-> <<>>, stopped |-> FALSE]
\* a handleRepeatCurrent call that is not running
IdleRepeat == [pc |-> "idle", shouldSpeakUk |-> FALSE]

LwInit ==
    [ settings         |-> [groupId |-> ALL, status |-> "all", order |-> "inOrder",
                            hideUkIfNoVoice |-> FALSE],
      selectedUkVoice  |-> FALSE,   \* whether a uk voice is selected (ukVoiceRef follows it)
      playlist         |-> WordList(MaxWords),   \* playlistRef follows it
      isPlaying        |-> FALSE,
      currentIndex     |-> 0,
      stopRequestedRef |-> FALSE,
      currentIndexRef  |-> 0,
      \* the run() calls in flight: pc is the await a loop is suspended at, i and w its
      \* locals, stopped records that handleStop ran while it was in flight
      loops            |-> [k \in 1..MaxRuns |-> IdleLoop],
      repeats          |-> [k \in 1..MaxRepeats |-> IdleRepeat] ]

LwOthers == <<words, mc, bw, cp, mp, fc, statsPosts, statsReplies, call>>

LwPlaylist(ws, settings) ==
    \* the playlist memo: the set of lists it may return
    LET byGroup  == IF settings.groupId # ALL
                    THEN SelectSeq(ws, LAMBDA w : w.group_id = settings.groupId)
                    ELSE ws
        byStatus == IF settings.status # "all"
                    THEN SelectSeq(byGroup, LAMBDA w : w.status = settings.status)
                    ELSE byGroup
    IN IF settings.order = "shuffle" THEN ShuffleArray(byStatus) ELSE {byStatus}

LwCurrentWord ==
    IF Len(lw.playlist) > 0 /\ lw.currentIndex < Len(lw.playlist)
    THEN <<lw.playlist[lw.currentIndex + 1]>> ELSE <<>>

\* the settings records the controls are set to
LwSettingsChoices ==
    { [groupId |-> ALL, status |-> "all", order |-> "inOrder", hideUkIfNoVoice |-> FALSE],
      [groupId |-> 1, status |-> "all", order |-> "inOrder", hideUkIfNoVoice |-> FALSE],
      [groupId |-> ALL, status |-> "learning", order |-> "inOrder",
       hideUkIfNoVoice |-> FALSE],
      [groupId |-> 1, status |-> "learning", order |-> "inOrder",
       hideUkIfNoVoice |-> FALSE],
      [groupId |-> 1, status |-> "all", order |-> "shuffle", hideUkIfNoVoice |-> FALSE],
      [groupId |-> ALL, status |-> "all", order |-> "inOrder", hideUkIfNoVoice |-> TRUE] }

LwSetSettings ==
    \* setSettings, the playlist memo and the ref-sync effects of the render that follows
    /\ page = "lw"
    /\ \E settings \in LwSettingsChoices :
         /\ settings # lw.settings
         /\ \E pl \in LwPlaylist(words, settings) :
              lw' = [lw EXCEPT !.settings = settings, !.playlist = pl]
    /\ UNCHANGED <<page, LwOthers>>

LwSetUkVoice ==
    \* settings.ukVoiceUri changes; the playlist memo depends on settings and runs again
    /\ page = "lw"
    /\ \E pl \in LwPlaylist(words, lw.settings) :
         lw' = [lw EXCEPT !.selectedUkVoice = ~@, !.playlist = pl]
    /\ UNCHANGED <<page, LwOthers>>

LwLoopActive(st, k) == st.loops[k].pc # "idle"

LwFinishKeepsPlaying(st, k, mounted) ==
    \* a run that leaves its loop without setIsPlaying(false)
    [st EXCEPT !.loops[k] = IdleLoop]

LwFinish(st, k, mounted) ==
    \* run() leaves its for loop: setIsPlaying(false), and the effect cleanup the
    \* render runs when isPlaying was true
    IF mounted /\ st.isPlaying
    THEN [st EXCEPT !.loops[k] = IdleLoop, !.isPlaying = FALSE, !.stopRequestedRef = TRUE]
    ELSE [st EXCEPT !.loops[k] = IdleLoop]

LwLoopTop(st, k, i, mounted) ==
    \* run() from the for condition to `await speak(w.word_en, ...)`
    IF i >= Len(st.playlist) THEN LwFinish(st, k, mounted)
    ELSE IF st.stopRequestedRef THEN LwFinish(st, k, mounted)
    ELSE [st EXCEPT !.loops[k].pc = "speakEn",
                    !.loops[k].i = i,
                    !.loops[k].w = <<st.playlist[i + 1]>>,
                    !.currentIndexRef = i,
                    !.currentIndex = IF mounted THEN i ELSE @]

LwShouldSpeakUkWhateverTheVoice(w, settings, ukVoice) ==
    \* a test that ignores the hide-if-no-voice option
    Truthy(w.translation_uk)

LwShouldSpeakUk(w, settings, ukVoice) ==
    Truthy(w.translation_uk) /\ (~settings.hideUkIfNoVoice \/ ukVoice)

LwFreeLoop(st) ==
    CHOOSE k \in 1..MaxRuns : ~LwLoopActive(st, k) /\ \A j \in 1..(k - 1) : LwLoopActive(st, j)

LwHandleStart ==
    \* handleStart and the playback effect of the render that follows
    /\ page = "lw"
    /\ Len(lw.playlist) > 0 /\ ~lw.isPlaying
    /\ \E k \in 1..MaxRuns : ~LwLoopActive(lw, k)
    /\ lw' = LwLoopTop([lw EXCEPT !.stopRequestedRef = FALSE,
                                  !.currentIndexRef = 0,
                                  !.currentIndex = 0,
                                  !.isPlaying = TRUE],
                       LwFreeLoop(lw), 0, TRUE)
    /\ UNCHANGED <<page, LwOthers>>

LwHandleStop ==
    \* handleStop and the effect cleanup of the render that follows
    /\ page = "lw"
    /\ lw.isPlaying
    /\ lw' = [lw EXCEPT !.stopRequestedRef = TRUE,
                        !.isPlaying = FALSE,
                        !.loops = [k \in DOMAIN @ |->
                                     IF @[k].pc # "idle"
                                     THEN [@[k] EXCEPT !.stopped = TRUE] ELSE @[k]]]
    /\ UNCHANGED <<page, LwOthers>>

LwHandleRepeatCurrent ==
    \* handleRepeatCurrent up to `await speak(currentWord.word_en, ...)`
    /\ page = "lw"
    /\ LwCurrentWord # <<>>
    /\ \E r \in 1..MaxRepeats :
         /\ lw.repeats[r].pc = "idle"
         /\ \A j \in 1..(r - 1) : lw.repeats[j].pc # "idle"
         /\ lw' = [lw EXCEPT !.stopRequestedRef = FALSE,
                             !.repeats[r] =
                                 [pc |-> "speakEn",
                                  shouldSpeakUk |->
                                      LwShouldSpeakUk(LwCurrentWord[1], lw.settings,
                                                      lw.selectedUkVoice)]]
    /\ UNCHANGED <<page, LwOthers>>

LwHandleNext ==
    /\ page = "lw"
    /\ LwCurrentWord # <<>>
    /\ lw.currentIndex < Len(lw.playlist) - 1
    /\ lw' = [lw EXCEPT !.currentIndex = IF @ + 1 < Len(lw.playlist) THEN @ + 1 ELSE @,
                        !.currentIndexRef = Min(@ + 1, Len(lw.playlist) - 1)]
    /\ UNCHANGED <<page, LwOthers>>

LwSpeechEnd ==
    \* an utterance of a narration loop ends, fails or is cancelled: speak() resolves
    /\ \E k \in 1..MaxRuns :
         LET loop == lw.loops[k]
             mounted == page = "lw"
         IN /\ loop.pc \in {"speakEn", "speakUk"}
            /\ lw' = IF lw.stopRequestedRef THEN LwFinish(lw, k, mounted)
                     ELSE IF loop.pc = "speakEn"
                             /\ LwShouldSpeakUk(loop.w[1], lw.settings, lw.selectedUkVoice)
                     THEN [lw EXCEPT !.loops[k].pc = "wait1"]
                     ELSE [lw EXCEPT !.loops[k].pc = "wait2"]
    /\ UNCHANGED <<page, LwOthers>>

LwWaitTick ==
    \* a tick of wait() that resolves it: the flag is set or the pause has elapsed
    /\ \E k \in 1..MaxRuns :
         LET loop == lw.loops[k]
             mounted == page = "lw"
         IN /\ loop.pc \in {"wait1", "wait2"}
            /\ lw' = IF lw.stopRequestedRef THEN LwFinish(lw, k, mounted)
                     ELSE IF loop.pc = "wait1"
                     THEN [lw EXCEPT !.loops[k].pc = "speakUk"]
                     ELSE LwLoopTop(lw, k, loop.i + 1, mounted)
    /\ UNCHANGED <<page, LwOthers>>

LwRepeatStep ==
    \* handleRepeatCurrent resumes after an await
    /\ \E r \in 1..MaxRepeats :
         LET rep == lw.repeats[r]
             afterWait == IF rep.shouldSpeakUk
                          THEN [lw EXCEPT !.repeats[r].pc = "speakUk"]
                          ELSE [lw EXCEPT !.repeats[r] = IdleRepeat]
         IN /\ rep.pc # "idle"
            /\ lw' = CASE rep.pc = "speakEn" ->
                            IF lw.stopRequestedRef THEN afterWait
                            ELSE [lw EXCEPT !.repeats[r].pc = "wait"]
                       [] rep.pc = "wait" -> afterWait
                       [] rep.pc = "speakUk" -> [lw EXCEPT !.repeats[r] = IdleRepeat]
    /\ UNCHANGED <<page, LwOthers>>

LwUnmount ==
    \* the user leaves the page: both effect cleanups run
    /\ page = "lw"
    /\ page' = "none"
    /\ lw' = [lw EXCEPT !.stopRequestedRef = TRUE]
    /\ UNCHANGED LwOthers

LwNext ==
    \/ LwSetSettings
    \/ LwSetUkVoice
    \/ LwHandleStart
    \/ LwHandleStop
    \/ LwHandleRepeatCurrent
    \/ LwHandleNext
    \/ LwSpeechEnd
    \/ LwWaitTick
    \/ LwRepeatStep
    \/ LwUnmount

-----------------------------------------------------------------------------
(* Specifications *)

InitPage(p) ==
    /\ page = p
    /\ words = WordList(MaxWords)
    /\ mc = McInit
    /\ bw = BwInit
    /\ cp = CpInit
    /\ mp = MpInit
    /\ fc = FcInit
    /\ lw = LwInit
    /\ statsPosts = <<>>
    /\ statsReplies = <<>>
    /\ call = NoCall

InitBw == InitPage("bw")
SpecBw == InitBw /\ [][BwNext]_vars

InitFc == InitPage("fc")
SpecFc == InitFc /\ [][FcNext]_vars

InitLw == InitPage("lw")
SpecLw == InitLw /\ [][LwNext]_vars

\* the four games that report statistics or could: one page is mounted
InitGames ==
    /\ page \in {"mc", "bw", "cp", "mp"}
    /\ words = WordList(MaxWords)
    /\ mc = McInit /\ bw = BwInit /\ cp = CpInit /\ mp = MpInit
    /\ fc = FcInit /\ lw = LwInit
    /\ statsPosts = <<>>
    /\ statsReplies = <<>>
    /\ call = NoCall

GamesNext == McNext \/ BwNext \/ CpNext \/ MpNext

SpecGames == InitGames /\ [][GamesNext]_vars

\* the four games with the phases setup, playing and results: one page is mounted
InitSessions ==
    /\ page \in {"mc", "bw", "cp", "fc"}
    /\ words = WordList(MaxWords)
    /\ mc = McInit /\ bw = BwInit /\ cp = CpInit /\ mp = MpInit
    /\ fc = FcInit /\ lw = LwInit
    /\ statsPosts = <<>>
    /\ statsReplies = <<>>
    /\ call = NoCall

SessionsNext == McNext \/ BwNext \/ CpNext \/ FcNext

SpecSessions == InitSessions /\ [][SessionsNext]_vars

\* the shuffle helpers applied on their own to arrays of every length up to
\* MaxShuffleLen, items repeated or not
ShuffleInputs == UNION {[1..n -> 1..MaxShuffleItem] : n \in 0..MaxShuffleLen}

InitShuffle ==
    /\ page = "none"
    /\ words = WordList(MaxWords)
    /\ mc = McInit /\ bw = BwInit /\ cp = CpInit /\ mp = MpInit
    /\ fc = FcInit /\ lw = LwInit
    /\ statsPosts = <<>>
    /\ statsReplies = <<>>
    /\ call \in {[fn |-> "none", input |-> arr, output |-> <<>>] : arr \in ShuffleInputs}

CallShuffleArray ==
    \* shuffleArray(arr), and the shuffle of the flashcards and listen-words pages
    /\ call.fn = "none"
    /\ \E copy \in ShuffleArray(call.input) :
         call' = [fn |-> "shuffleArray", input |-> call.input, output |-> copy]
    /\ UNCHANGED <<page, words, mc, bw, cp, mp, fc, lw, statsPosts, statsReplies>>

CallSortShuffle ==
    \* shuffle(arr) of the matching-pairs page
    /\ call.fn = "none"
    /\ \E sorted \in SortShuffle(call.input) :
         call' = [fn |-> "shuffle", input |-> call.input, output |-> sorted]
    /\ UNCHANGED <<page, words, mc, bw, cp, mp, fc, lw, statsPosts, statsReplies>>

ShuffleNext == CallShuffleArray \/ CallSortShuffle

SpecShuffle == InitShuffle /\ [][ShuffleNext]_vars

\* buildSlotsAndLetters applied on its own to the targets the simple-word filter
\* lets through: letters, spaces and commas
SeaLion == <<"s", "e", "a", " ", "l", "i", "o", "n">>

TargetTexts ==
    UNION {[1..n -> {"a", "B", " ", ","}] : n \in 1..MaxTargetLen} \cup {SeaLion}

InitBuildSlots ==
    /\ page = "none"
    /\ words = WordList(MaxWords)
    /\ mc = McInit /\ bw = BwInit /\ cp = CpInit /\ mp = MpInit
    /\ fc = FcInit /\ lw = LwInit
    /\ statsPosts = <<>>
    /\ statsReplies = <<>>
    /\ call \in {[fn |-> "none",
                   input |-> [word_en |-> text, showFirstLetter |-> flag],
                   output |-> <<>>] : text \in TargetTexts, flag \in BOOLEAN}

CallBuildSlotsAndLetters ==
    /\ call.fn = "none"
    /\ \E built \in BuildSlotsAndLetters(call.input, call.input.showFirstLetter) :
         call' = [fn |-> "buildSlotsAndLetters", input |-> call.input, output |-> built]
    /\ UNCHANGED <<page, words, mc, bw, cp, mp, fc, lw, statsPosts, statsReplies>>

SpecBuildSlots == InitBuildSlots /\ [][CallBuildSlotsAndLetters]_vars

\* build-word played on a list of one word whose target is any text the
\* simple-word filter lets through
InitBwTargets ==
    /\ page = "bw"
    /\ words \in {<<[Word(1) EXCEPT !.word_en = text]>> :
                      text \in {t \in TargetTexts : Len(t) <= MaxPlayTargetLen}}
    /\ mc = McInit /\ bw = BwInit /\ cp = CpInit /\ mp = MpInit
    /\ fc = FcInit /\ lw = LwInit
    /\ statsPosts = <<>>
    /\ statsReplies = <<>>
    /\ call = NoCall

SpecBwTargets == InitBwTargets /\ [][BwNext]_vars

\* the whole application: any page is mounted
Init ==
    /\ page \in {"mc", "bw", "cp", "mp", "fc", "lw"}
    /\ words = WordList(MaxWords)
    /\ mc = McInit /\ bw = BwInit /\ cp = CpInit /\ mp = MpInit
    /\ fc = FcInit /\ lw = LwInit
    /\ statsPosts = <<>>
    /\ statsReplies = <<>>
    /\ call = NoCall

Next == McNext \/ BwNext \/ CpNext \/ MpNext \/ FcNext \/ LwNext

Spec == Init /\ [][Next]_vars

-----------------------------------------------------------------------------
(* The pool filters over longer word lists: list (n, k) has n words, the   *)
(* first k of them in group 1 and the others in group 2.                   *)

FilterWordList(n, k) ==
    [i \in 1..n |-> [Word(i) EXCEPT !.group_id = IF i <= k THEN 1 ELSE 2]]

InitFilter ==
    /\ page \in {"mc", "bw", "cp"}
    /\ words \in UNION {{FilterWordList(n, k) : k \in 0..n} : n \in 0..MaxFilterWords}
    /\ mc = McInit /\ bw = BwInit /\ cp = CpInit /\ mp = MpInit
    /\ fc = FcInit /\ lw = LwInit
    /\ statsPosts = <<>>
    /\ statsReplies = <<>>
    /\ call = NoCall

FilterNext ==
    \/ McSetStatus(StatusFilters)
    \/ McSetGroup(GroupFilters)
    \/ McSetMode
    \/ BwSetStatus(StatusFilters)
    \/ BwSetGroup(GroupFilters)
    \/ CpSetStatus(StatusFilters)
    \/ CpSetGroup(GroupFilters)

SpecFilter == InitFilter /\ [][FilterNext]_vars

-----------------------------------------------------------------------------
(* buildQuestions over pools whose option texts repeat: word i of a pool   *)
(* shares its English text with one word and its translation with another. *)

BuildWord(i) ==
    [ id             |-> i,
      group_id       |-> 1,
      word_en        |-> IF i % 3 = 0 THEN <<"B", ",", " ", "a">> ELSE <<"a", "b">>,
      translation_uk |-> IF i % 3 = 2 THEN <<"y">> ELSE <<"x">>,
      image_url      |-> <<"u">>,
      status         |-> "learning" ]

InitMcBuild ==
    /\ page = "mc"
    /\ words \in {[i \in 1..n |-> BuildWord(i)] : n \in 0..MaxWords}
    /\ mc \in {[McInit EXCEPT !.settings.mode = m, !.settings.questionCount = c]
               : m \in Modes, c \in QuestionCounts}
    /\ bw = BwInit /\ cp = CpInit /\ mp = MpInit /\ fc = FcInit /\ lw = LwInit
    /\ statsPosts = <<>>
    /\ statsReplies = <<>>
    /\ call = NoCall

SpecMcBuild == InitMcBuild /\ [][McHandleStartGame]_vars

-----------------------------------------------------------------------------
(* Properties *)

\* C1: in multiple-choice, build-word, column-pairs and flashcards, whenever the
\* phase is results the number of Answer Records equals the number of items of the
\* built session.
C1_AnswersMatchItems ==
    /\ (page = "mc" /\ mc.phase = "results") => Len(mc.answers) = Len(mc.questions)
    /\ (page = "bw" /\ bw.phase = "results") => Len(bw.answers) = Len(bw.questions)
    /\ (page = "cp" /\ cp.phase = "results") => Len(cp.answers) = Len(cp.gameWords)
    /\ (page = "fc" /\ fc.phase = "results") => Len(fc.results) = Len(fc.deck)

\* C2: on the listen-words page at most one narration loop runs at a time: a loop
\* goes on from a pause to a speak call only when no other loop is in flight.
C2_OneLoopSpeaks ==
    [][\A k \in 1..MaxRuns :
          (/\ lw.loops[k].pc \in {"wait1", "wait2"}
           /\ lw'.loops[k].pc \in {"speakEn", "speakUk"})
          => \A j \in (1..MaxRuns) \ {k} : lw.loops[j].pc = "idle"]_vars

\* C3: a narration loop that was in flight when Stop was pressed takes no step but
\* its exit: it never goes on to a wait or to another speak call.
C3_StoppedLoopExits ==
    [][\A k \in 1..MaxRuns :
          lw.loops[k].stopped =>
              \/ lw'.loops[k] = lw.loops[k]
              \/ lw'.loops[k].pc = "idle"]_vars

BwExpectedPost ==
    [url  |-> "/stats/bulk",
     body |-> [entries |-> [k \in 1..Len(bw.answers) |->
                              [wordId   |-> bw.answers[k].wordId,
                               gameType |-> "build_word",
                               correct  |-> bw.answers[k].correct]]]]

CpExpectedPost ==
    [url  |-> "/stats",
     body |-> [game_type |-> "column_pairs",
               answers   |-> [k \in 1..Len(cp.answers) |->
                                [word_id    |-> cp.answers[k].wordId,
                                 is_correct |-> IF cp.answers[k].correct THEN 1 ELSE 0]]]]

MpExpectedPost ==
    [url  |-> "/stats/batch",
     body |-> [gameType |-> "matching_pairs",
               results  |-> [k \in 1..Len(mp.results) |->
                               [wordId    |-> mp.results[k].word.id,
                                isCorrect |-> mp.results[k].isCorrect]]]]

StatusMatches(w, status) == status = "all" \/ w.status = status
GroupMatches(w, groupId) == groupId = ALL \/ w.group_id = groupId

InGroupCount(settings) ==
    Cardinality({i \in 1..Len(words) : /\ words[i].group_id = settings.groupId
                                       /\ StatusMatches(words[i], settings.status)})

\* build-word counts the in-group words among those spelled with letters, spaces
\* and commas only
SimpleInGroupCount(settings) ==
    Cardinality({i \in 1..Len(words) :
                   /\ words[i].group_id = settings.groupId
                   /\ StatusMatches(words[i], settings.status)
                   /\ \A k \in 1..Len(words[i].word_en) :
                          words[i].word_en[k] \in {"a", "b", "A", "B", " ", ","}})

CorrectText(q) ==
    IF mc.settings.mode = "enToUk" THEN q.word.translation_uk ELSE q.word.word_en

\* C6: each question of a built multiple-choice session holds the correct answer
\* text exactly once among its options, at the position correctIndex.
C6_CorrectOptionOnce ==
    (page = "mc" /\ mc.phase = "playing") =>
        \A i \in 1..Len(mc.questions) :
            LET q == mc.questions[i]
            IN /\ Cardinality({k \in 1..Len(q.options) : q.options[k] = CorrectText(q)}) = 1
               /\ q.correctIndex \in 0..(Len(q.options) - 1)
               /\ q.options[q.correctIndex + 1] = CorrectText(q)

C6_Witness ==
    /\ page = "mc" /\ mc.phase = "playing"
    /\ \E i \in 1..Len(mc.questions) :
         /\ Len(mc.questions[i].options) = 2
         /\ Len(McFilteredBaseWords(words, mc.settings)) = 3

McBuilds ==
    \* a step in which handleStartGame built a session, or reported that none was built
    /\ page = "mc"
    /\ mc'.settings = mc.settings
    /\ \/ mc.phase # "playing" /\ mc'.phase = "playing"
       \/ mc.phase = "setup" /\ mc'.phase = "setup"
          /\ mc.error # "noQuestions" /\ mc'.error = "noQuestions"

McBuilt == IF mc'.phase = "playing" THEN Len(mc'.questions) ELSE 0

McPool == McFilteredBaseWords(words, mc.settings)

BwBuilds == page = "bw" /\ bw.phase # "playing" /\ bw'.phase = "playing"

\* the sizes of the pools a build-word session is built from: the filtered pool,
\* or from the results view the words answered wrongly
BwPoolSizes ==
    {Len(BwFilteredBaseWords(words, bw.settings))}
    \cup (IF bw.phase = "results"
          THEN {Cardinality({i \in 1..Len(bw.questions) :
                               i > Len(bw.answers) \/ ~bw.answers[i].correct})}
          ELSE {})

CpBuilds == page = "cp" /\ cp.phase # "playing" /\ cp'.phase = "playing"

LetterSlotChars(slots) ==
    LET nonSpace == SelectSeq(slots, LAMBDA sl : sl.type # "space")
    IN [i \in 1..Len(nonSpace) |-> nonSpace[i].char]

TargetWithoutWhitespace(word) == SelectSeq(Lower(word.word_en), LAMBDA ch : ch # " ")

\* C8: when build-word's check takes an answer (every letter slot is filled), it
\* records it as correct iff the characters of the non-space slots, put together,
\* equal the target word without its whitespace, letter case aside.
C8_CheckComparesLetters ==
    [][(page = "bw" /\ bw.selectedState = "idle" /\ bw'.selectedState # "idle") =>
          LET word    == bw.questions[bw.currentIndex + 1]
              matches == Lower(LetterSlotChars(bw.slots)) = TargetWithoutWhitespace(word)
          IN /\ bw'.selectedState = (IF matches THEN "correct" ELSE "wrong")
             /\ bw'.answers = Append(bw.answers, [wordId |-> word.id, correct |-> matches])
      ]_vars

C8_Witness ==
    /\ page = "bw" /\ bw.phase = "playing"
    /\ bw.selectedState = "correct"
    /\ \E i \in 1..Len(bw.slots) : bw.slots[i].type = "space"

HasEmptyLetterSlot ==
    \E i \in 1..Len(bw.slots) : bw.slots[i].type = "letter" /\ bw.slots[i].char = "null"

\* C9: while a letter slot of the current build-word item is empty, no step appends
\* an Answer Record, leaves the idle selectedState or changes correctCount, streak
\* or bestStreak, and a check changes the feedback message alone.
C9_IncompleteCheckRejected ==
    [][(page = "bw" /\ bw.phase = "playing" /\ bw.selectedState = "idle"
        /\ HasEmptyLetterSlot) =>
          /\ bw'.answers = bw.answers
          /\ bw'.selectedState = "idle"
          /\ bw'.correctCount = bw.correctCount
          /\ bw'.streak = bw.streak
          /\ bw'.bestStreak = bw.bestStreak
          /\ BwHandleCheck => bw' = [bw EXCEPT !.feedback = "fillAllLetters"]]_vars

C9_Witness ==
    /\ page = "bw" /\ bw.phase = "playing"
    /\ bw.feedback = "fillAllLetters"
    /\ HasEmptyLetterSlot
    /\ \E i \in 1..Len(bw.slots) : bw.slots[i].sourceButtonId # -1

PairOf(id) ==
    \* the first committed pair that holds word id
    cp.pairs[CHOOSE k \in 1..Len(cp.pairs) :
               /\ id \in {cp.pairs[k].leftId, cp.pairs[k].rightId}
               /\ \A j \in 1..(k - 1) : id \notin {cp.pairs[j].leftId, cp.pairs[j].rightId}]

\* C10: column-pairs' check marks a word correct iff the committed pair that holds
\* it has the same id on both sides; matching-pairs takes the second flipped card
\* for a match with the first iff both carry the same wordId.
C10_PairCorrectIffSameWord ==
    [][/\ (page = "cp" /\ cp.phase = "playing" /\ cp'.phase = "results") =>
            /\ Len(cp'.answers) = Len(cp.gameWords)
            /\ \A i \in 1..Len(cp.gameWords) :
                 /\ cp'.answers[i].wordId = cp.gameWords[i].id
                 /\ cp'.answers[i].correct =
                        (/\ \E k \in 1..Len(cp.pairs) :
                              cp.gameWords[i].id \in {cp.pairs[k].leftId, cp.pairs[k].rightId}
                         /\ PairOf(cp.gameWords[i].id).leftId
                                = PairOf(cp.gameWords[i].id).rightId)
       /\ (page = "mp" /\ Len(mp.flipped) = 1 /\ Len(mp'.flipped) = 2) =>
            LET c1 == mp.cards[mp'.flipped[1] + 1]
                c2 == mp.cards[mp'.flipped[2] + 1]
            IN IF c1.wordId = c2.wordId
               THEN mp'.matchedWordIds = Append(mp.matchedWordIds, c1.wordId)
               ELSE /\ mp'.matchedWordIds = mp.matchedWordIds
                    /\ mp'.wordStats[c1.wordId].wrong = mp.wordStats[c1.wordId].wrong + 1
                    /\ mp'.wordStats[c2.wordId].wrong = mp.wordStats[c2.wordId].wrong + 1
      ]_vars

C10_Witness ==
    /\ page = "mp" /\ mp.phase = "playing"
    /\ Len(mp.flipped) = 2
    /\ mp.cards[mp.flipped[1] + 1].wordId # mp.cards[mp.flipped[2] + 1].wordId
    /\ mp.cards[mp.flipped[1] + 1].side # mp.cards[mp.flipped[2] + 1].side
    /\ mp.moves = 1 /\ mp.matchedWordIds = <<>>

-----------------------------------------------------------------------------
BwAllCorrect == \A i \in 1..Len(bw.answers) : bw.answers[i].correct

MpAllCorrect == \A k \in 1..Len(mp.results) : mp.results[k].isCorrect

-----------------------------------------------------------------------------
PhaseEdges ==
    {<<"setup", "playing">>, <<"playing", "results">>,
     <<"results", "playing">>, <<"results", "setup">>}

PhaseStep(from, to) == from = to \/ <<from, to>> \in PhaseEdges

\* C12: in multiple-choice, build-word, column-pairs and flashcards the phase changes
\* only from setup to playing, from playing to results, from results to playing and
\* from results to setup; it goes from playing to results only on the last item
\* (every pair committed, in column-pairs).
C12_PhaseEdgesOnly ==
    [][/\ PhaseStep(mc.phase, mc'.phase)
       /\ PhaseStep(bw.phase, bw'.phase)
       /\ PhaseStep(cp.phase, cp'.phase)
       /\ PhaseStep(fc.phase, fc'.phase)
       /\ (mc.phase = "playing" /\ mc'.phase = "results") =>
              mc.currentIndex + 1 = Len(mc.questions)
       /\ (bw.phase = "playing" /\ bw'.phase = "results") =>
              bw.currentIndex + 1 = Len(bw.questions)
       /\ (cp.phase = "playing" /\ cp'.phase = "results") =>
              (Len(cp.gameWords) > 0 /\ Len(cp.pairs) = Len(cp.gameWords))
       /\ (fc.phase = "playing" /\ fc'.phase = "results") =>
              fc.currentIndex + 1 = Len(fc.deck)
      ]_vars

C12_Witness ==
    /\ page = "fc" /\ fc.phase = "setup"
    /\ Len(fc.deck) > 1 /\ Len(fc.results) = Len(fc.deck)

-----------------------------------------------------------------------------
Count(s, x) == Cardinality({i \in 1..Len(s) : s[i] = x})

IsPermutation(a, b) ==
    /\ Len(a) = Len(b)
    /\ \A x \in Range(a) \cup Range(b) : Count(a, x) = Count(b, x)

\* C13: what a shuffle helper returns (the Fisher-Yates shuffleArray / shuffle, and
\* the sort-based shuffle of matching-pairs) is a permutation of its input: the same
\* length and every item as many times, for every length from 0 and every outcome
\* of the random choices.
C13_ShuffleIsPermutation ==
    call.fn \in {"shuffleArray", "shuffle"} => IsPermutation(call.input, call.output)

C13_Witness ==
    /\ call.fn = "shuffleArray"
    /\ Len(call.input) >= 3
    /\ call.input[1] = call.input[2] /\ call.input[3] # call.input[1]
    /\ call.output # call.input

-----------------------------------------------------------------------------
\* the characters of a target that get a letter button, lower-cased, in order
ButtonChars(text) ==
    Lower(SelectSeq(Trim(text), LAMBDA ch : ch \notin {" ", ","}))

\* C14: buildSlotsAndLetters makes one slot per character of the trimmed target, in
\* order (slot i has index i), a space slot exactly where the character is a space,
\* and one letter button for each character that is neither a space nor a comma,
\* carrying that character in lower case, with the ids 0, 1, ...
C14_SlotsAndButtons ==
    call.fn = "buildSlotsAndLetters" =>
        LET target  == Trim(call.input.word_en)
            slots   == call.output.slots
            letters == call.output.letters
        IN /\ Len(slots) = Len(target)
           /\ \A i \in 1..Len(slots) :
                /\ slots[i].index = i - 1
                /\ (slots[i].type = "space") = (target[i] = " ")
           /\ IsPermutation([k \in 1..Len(letters) |-> letters[k].char],
                            ButtonChars(call.input.word_en))
           /\ {letters[k].id : k \in 1..Len(letters)} = 0..(Len(letters) - 1)

C14_Witness ==
    /\ call.fn = "buildSlotsAndLetters"
    /\ call.input.word_en = SeaLion
    /\ Len(call.output.slots) = 8
    /\ call.output.slots[4].type = "space"
    /\ Len(call.output.letters) = 7
    /\ call.output.letters[1].char # "s"

-----------------------------------------------------------------------------
\* a step in which the touch of the gesture in progress moves
FcGestureMoves ==
    /\ page = "fc"
    /\ fc.touchRef # <<>> /\ fc'.touchRef # <<>>
    /\ fc'.touchRef # fc.touchRef

\* C15: a move of a flashcards gesture not yet taken for a swipe, to a displacement
\* with |dx| over the 60px threshold and over |dy|, registers exactly one result for
\* the current card (unknown leftwards, known rightwards) and advances the index by
\* one, or enters results on the last card; a later move of the same gesture
\* registers nothing and leaves index and phase alone.
C15_SwipeRegistersOnce ==
    [][/\ (/\ FcGestureMoves
           /\ ~fc.touchRef[1].isSwipe
           /\ Abs(fc'.touchRef[1].dx) > SWIPE_THRESHOLD
           /\ Abs(fc'.touchRef[1].dx) > Abs(fc'.touchRef[1].dy)) =>
            /\ fc'.touchRef[1].isSwipe
            /\ fc'.results =
                   Append(fc.results,
                          [word   |-> fc.deck[fc.currentIndex + 1],
                           result |-> IF fc'.touchRef[1].dx < 0 THEN "unknown" ELSE "known"])
            /\ IF fc.currentIndex + 1 >= Len(fc.deck)
               THEN fc'.phase = "results" /\ fc'.currentIndex = fc.currentIndex
               ELSE fc'.phase = "playing" /\ fc'.currentIndex = fc.currentIndex + 1
       /\ (FcGestureMoves /\ fc.touchRef[1].isSwipe) =>
            /\ fc'.results = fc.results
            /\ fc'.currentIndex = fc.currentIndex
            /\ fc'.phase = fc.phase
      ]_vars

C15_Witness ==
    /\ page = "fc" /\ fc.phase = "playing"
    /\ fc.touchRef # <<>>
    /\ fc.touchRef[1].isSwipe /\ fc.touchRef[1].dx > SWIPE_THRESHOLD
    /\ Len(fc.results) = 1 /\ fc.results[1].result = "unknown"
    /\ fc.currentIndex = 1

-----------------------------------------------------------------------------
\* a step in which a stats request fails
StatsRequestFails == statsReplies' = Append(statsReplies, "failed")

StatsRequestFailed == \E k \in 1..Len(statsReplies) : statsReplies[k] = "failed"

\* C16: a failed stats request does not block the game. In build-word and
\* column-pairs the step that sends the request enters results; the step in which a
\* request fails changes nothing of the page's state but, in matching-pairs,
\* savingStats, which it clears; and after a failure retry and change-settings
\* (matching-pairs: new game) can still be taken from the results view.
C16_FailedStatsDoNotBlock ==
    /\ [][/\ (page = "bw" /\ statsPosts' # statsPosts /\ statsPosts' # <<>>) =>
                 bw'.phase = "results"
          /\ (page = "cp" /\ statsPosts' # statsPosts /\ statsPosts' # <<>>) =>
                 cp'.phase = "results"
          /\ StatsRequestFails =>
               /\ bw' = bw /\ cp' = cp
               /\ mp' = [mp EXCEPT !.savingStats = FALSE]
         ]_vars
    /\ [](/\ (StatsRequestFailed /\ page = "bw" /\ bw.phase = "results") =>
               /\ \E st \in BwStartGameWithPool(bw, BwFilteredBaseWords(words, bw.settings)) :
                      st.phase = "playing"
               /\ ENABLED BwChangeSettings
          /\ (StatsRequestFailed /\ page = "cp" /\ cp.phase = "results") =>
               /\ \E st \in CpStartGame(cp) : st.phase = "playing"
               /\ ENABLED CpChangeSettings
          /\ (StatsRequestFailed /\ page = "mp" /\ mp.phase = "finished") =>
               /\ \E st \in MpReplay(mp, FALSE) : st.phase = "config"
               /\ ENABLED MpHandleReplay)

C16_Witness ==
    /\ page = "cp" /\ cp.phase = "results"
    /\ Len(statsPosts) = 1 /\ statsReplies = <<"failed">>
    /\ Len(cp.answers) = Len(cp.gameWords)

-----------------------------------------------------------------------------
\* C17: once the current build-word item is checked (selectedState correct or
\* wrong), a step that is not Next -- it stays on the item -- changes none of slots,
\* selectedState, answers, correctCount, streak and bestStreak; so the item is
\* checked once and gets one Answer Record.
C17_CheckedWordIsLocked ==
    [][(/\ page = "bw" /\ bw.phase = "playing"
        /\ bw.selectedState # "idle"
        /\ bw'.phase = "playing" /\ bw'.currentIndex = bw.currentIndex) =>
           /\ bw'.slots = bw.slots
           /\ bw'.selectedState = bw.selectedState
           /\ bw'.answers = bw.answers
           /\ bw'.correctCount = bw.correctCount
           /\ bw'.streak = bw.streak
           /\ bw'.bestStreak = bw.bestStreak
      ]_vars

-----------------------------------------------------------------------------
\* C18: in the results phase of multiple-choice and build-word every session item
\* has its Answer Record at its own position: the i-th Answer Record carries the
\* wordId of the i-th item.
C18_AnswersAlignWithItems ==
    /\ (page = "mc" /\ mc.phase = "results") =>
          \A i \in 1..Len(mc.questions) :
              /\ i <= Len(mc.answers)
              /\ mc.answers[i].wordId = mc.questions[i].word.id
    /\ (page = "bw" /\ bw.phase = "results") =>
          \A i \in 1..Len(bw.questions) :
              /\ i <= Len(bw.answers)
              /\ bw.answers[i].wordId = bw.questions[i].id

\* the Answer Records of a word, in order
BwRecordsOf(wordId) == SelectSeq(bw.answers, LAMBDA a : a.wordId = wordId)

\* C19: the session that build-word's retry-wrong-only starts holds only words whose
\* last Answer Record in the finished session was incorrect.
C19_RetryWrongHoldsWrongWords ==
    [][(/\ page = "bw" /\ bw.phase = "results"
        /\ BwHandleRetryWrongOnly
        /\ bw'.phase = "playing") =>
           \A i \in 1..Len(bw'.questions) :
               LET records == BwRecordsOf(bw'.questions[i].id)
               IN /\ Len(records) > 0
                  /\ ~records[Len(records)].correct
      ]_vars

-----------------------------------------------------------------------------
CorrectRecords(answers) == Cardinality({i \in 1..Len(answers) : answers[i].correct})

\* whether the records from position from up to position to are all correct
AllCorrect(answers, from, to) == \A i \in from..to : answers[i].correct

TrailingRun(answers) ==
    LET runs == {k \in 0..Len(answers) : AllCorrect(answers, Len(answers) - k + 1, Len(answers))}
    IN CHOOSE k \in runs : \A m \in runs : m <= k

LongestRun(answers) ==
    LET runs == {k \in 0..Len(answers) :
                   \E from \in 1..(Len(answers) + 1) :
                       /\ from + k - 1 <= Len(answers)
                       /\ AllCorrect(answers, from, from + k - 1)}
    IN CHOOSE k \in runs : \A m \in runs : m <= k

CountersFollow(st) ==
    /\ st.correctCount = CorrectRecords(st.answers)
    /\ st.streak = TrailingRun(st.answers)
    /\ st.bestStreak = LongestRun(st.answers)

\* C20: in multiple-choice and build-word correctCount is the number of Answer
\* Records with correct = true and never exceeds the number of session items, streak
\* is the length of the trailing run of correct Answer Records and bestStreak the
\* length of the longest run.
C20_CountersFollowAnswers ==
    /\ page = "mc" => (CountersFollow(mc) /\ mc.correctCount <= Len(mc.questions))
    /\ page = "bw" => (CountersFollow(bw) /\ bw.correctCount <= Len(bw.questions))

-----------------------------------------------------------------------------
(* C21: multiple-choice, after the first option selection on a question every
   further selection is a no-op until Next: selectedIndex, answers,
   correctCount and streak keep their values while the question stays
   current; and the first selection records exactly one Answer Record whose
   correctness is (selected index = correctIndex). *)
C21_FirstSelectionLocks ==
    [][ (page = "mc" /\ mc.phase = "playing" /\ mc'.phase = "playing"
         /\ mc'.currentIndex = mc.currentIndex /\ mc'.questions = mc.questions)
        => LET q == mc.questions[mc.currentIndex + 1]
           IN IF mc.selectedIndex # -1
              THEN /\ mc'.selectedIndex = mc.selectedIndex
                   /\ mc'.answers = mc.answers
                   /\ mc'.correctCount = mc.correctCount
                   /\ mc'.streak = mc.streak
              ELSE mc'.selectedIndex # -1 =>
                   mc'.answers = Append(mc.answers,
                       [wordId  |-> q.word.id,
                        correct |-> (mc'.selectedIndex = q.correctIndex)]) ]_vars

C21_Witness ==
    /\ page = "mc" /\ mc.phase = "playing"
    /\ mc.currentIndex = 1 /\ mc.selectedIndex # -1
    /\ mc.selectedIndex # mc.questions[2].correctIndex
    /\ Len(mc.answers) = 2 /\ mc.answers[1].correct /\ ~mc.answers[2].correct

-----------------------------------------------------------------------------
(* C22: build-word, space and comma slots are fixed: in every playing state
   the slot at the position of a space or a comma of the target holds that
   character and has no source letter button, whatever letter clicks, slot
   clicks and resets came before. *)
FixedChars == {" ", ","}

C22_FixedSlotsStay ==
    (page = "bw" /\ BwCurrentWord # <<>>) =>
        LET normalized == Lower(Trim(BwCurrentWord[1].word_en))
        IN /\ Len(bw.slots) = Len(normalized)
           /\ \A i \in 1..Len(normalized) :
                  normalized[i] \in FixedChars =>
                      /\ bw.slots[i].char = normalized[i]
                      /\ bw.slots[i].sourceButtonId = -1

-----------------------------------------------------------------------------
(* C23: build-word, from every reachable playing state the results phase
   remains reachable: whatever the slots hold, the player has button presses
   that bring the current word to a checked state, from which Next advances.
   The presses: every unused letter button in turn, then Check; or, when that
   leaves a letter slot empty, the reset button and then the same. *)
RECURSIVE BwClickAll(_, _)
BwClickAll(st, i) ==
    \* the letter buttons pressed one after the other, from the i-th on
    IF i > Len(st.letters) THEN st
    ELSE BwClickAll(BwLetterClick(st, st.letters[i]), i + 1)

BwChecked(st, word) == BwCheck(st, word).selectedState # "idle"

BwCanCheck(st, word, showFirstLetter) ==
    \/ st.selectedState # "idle"
    \/ BwChecked(BwClickAll(st, 1), word)
    \/ /\ ~BwResetDisabled(BwClickAll(st, 1))
       /\ \A b \in BuildSlotsAndLetters(word, showFirstLetter) :
             BwChecked(BwClickAll([st EXCEPT !.slots = b.slots, !.letters = b.letters,
                                             !.selectedState = "idle"], 1), word)

C23_NeverStuckOnAWord ==
    (page = "bw" /\ BwCurrentWord # <<>>) =>
        BwCanCheck(bw, BwCurrentWord[1], bw.settings.showFirstLetter)

\* a state the presses above do not get out of is never left: every step of the
\* page from it leads to another such state, so no press sequence at all checks
\* the word
BwStuck ==
    /\ page = "bw" /\ BwCurrentWord # <<>>
    /\ ~BwCanCheck(bw, BwCurrentWord[1], bw.settings.showFirstLetter)

BwStuckForGood == [][BwStuck => BwStuck']_vars

-----------------------------------------------------------------------------
(* C24: column-pairs, a committed pair (L, R) locks only L in the left column
   and R in the right column: a left item answers a click exactly when it is
   the left side of no pair, a right item exactly when it is the right side
   of no pair; so while fewer pairs than words are committed, some left item
   and some right item can still be paired, and the all-paired state that
   enables check stays reachable without clearing the pairs. *)
CpLeftIds(pairs) == {pairs[i].leftId : i \in 1..Len(pairs)}
CpRightIds(pairs) == {pairs[i].rightId : i \in 1..Len(pairs)}

CpUnselected(st) == [st EXCEPT !.selectedLeftId = -1, !.selectedRightId = -1]

C24_PairLocksItsOwnSides ==
    (page = "cp" /\ cp.phase = "playing") =>
        /\ \A id \in Range(cp.leftOrder) :
              (CpClickLeft(cp, id) # cp) <=> (id \notin CpLeftIds(cp.pairs))
        /\ \A id \in Range(cp.rightOrder) :
              (CpClickRight(cp, id) # cp) <=> (id \notin CpRightIds(cp.pairs))
        /\ Len(cp.pairs) < Len(cp.gameWords) =>
              \E l \in Range(cp.leftOrder), r \in Range(cp.rightOrder) :
                  Len(CpClickRight(CpClickLeft(CpUnselected(cp), l), r).pairs)
                      = Len(cp.pairs) + 1

-----------------------------------------------------------------------------
(* C25: column-pairs, a pair is committed exactly when one left item and one
   right item are both selected: a click commits the pair (left, right) iff
   it is on an unpaired item and the other column holds a selection, for
   every word id; after the commit both selections are cleared; and no left
   item and no right item ever appears in more than one committed pair. *)
CpCommits == Len(cp'.pairs) = Len(cp.pairs) + 1

-----------------------------------------------------------------------------
(* C26: build-word, on an unchecked word: clicking an unused letter button
   fills the lowest-index empty letter slot with that letter and changes
   nothing else (a no-op when no letter slot is empty); clicking a filled
   letter slot empties only that slot and its source button is unused again;
   clicking an already used button is a no-op. A letter slot is the slot of a
   target character that is neither a space nor a comma. *)
LetterPositions(word) ==
    LET normalized == Lower(Trim(word.word_en))
    IN {i \in 1..Len(normalized) : normalized[i] \notin FixedChars}

C26_ClicksFillAndVacate ==
    (page = "bw" /\ BwCurrentWord # <<>> /\ bw.selectedState = "idle") =>
        LET positions == LetterPositions(BwCurrentWord[1])
            empties   == {i \in positions : bw.slots[i].char = "null"}
        IN /\ \A n \in 1..Len(bw.letters) :
                LET btn   == bw.letters[n]
                    after == BwLetterClick(bw, btn)
                IN IF IsButtonUsed(bw.slots, btn.id) \/ empties = {}
                   THEN after = bw
                   ELSE LET k == CHOOSE i \in empties : \A j \in empties : i <= j
                        IN after = [bw EXCEPT !.slots[k].char = btn.char,
                                              !.slots[k].sourceButtonId = btn.id]
           /\ \A i \in positions :
                bw.slots[i].char # "null" =>
                    LET after == BwSlotClick(bw, bw.slots[i])
                    IN /\ after = [bw EXCEPT !.slots[i].char = "null",
                                             !.slots[i].sourceButtonId = -1]
                       /\ ~IsButtonUsed(after.slots, bw.slots[i].sourceButtonId)

-----------------------------------------------------------------------------
(* C27: build-word, in every reachable playing state each letter button is
   the source of at most one slot, and the number of empty letter slots
   equals the number of unused letter buttons. *)
C27_ButtonsMatchEmptySlots ==
    (page = "bw" /\ BwCurrentWord # <<>>) =>
        LET positions == LetterPositions(BwCurrentWord[1])
            empties   == {i \in positions : bw.slots[i].char = "null"}
            unused    == {n \in 1..Len(bw.letters) :
                             ~IsButtonUsed(bw.slots, bw.letters[n].id)}
        IN /\ \A n \in 1..Len(bw.letters) :
                Cardinality({i \in 1..Len(bw.slots) :
                                bw.slots[i].sourceButtonId = bw.letters[n].id}) <= 1
           /\ Cardinality(empties) = Cardinality(unused)

-----------------------------------------------------------------------------
\* the field a word needs to be asked in a multiple-choice mode
McPlayable(w, mode) ==
    IF mode \in {"enToUk", "ukToEn"} THEN Truthy(w.translation_uk)
    ELSE Truthy(w.image_url)

\* the group rule of a pool: inGroup words number the candidates of the selected
\* group, candidate(w) and playable(w) say which words the other filters keep
GroupRule(pool, inGroupCount, groupId, candidate, playable) ==
    LET kept == {i \in 1..Len(words) : candidate[i] /\ playable[i]}
    IN /\ \A i \in kept : words[i].group_id = groupId =>
              \E j \in 1..Len(pool) : pool[j] = words[i]
       /\ \A j \in 1..Len(pool) :
              \E i \in kept : pool[j] = words[i]
       /\ inGroupCount < FALLBACK_MIN =>
              /\ \A i \in kept : words[i].group_id # groupId =>
                     \E j \in 1..Len(pool) : pool[j] = words[i]
              /\ \A i, j \in 1..Len(pool) :
                     (i < j /\ pool[j].group_id = groupId) => pool[i].group_id = groupId
       /\ inGroupCount >= FALLBACK_MIN =>
              \A j \in 1..Len(pool) : pool[j].group_id = groupId

(* C28 (amended): multiple-choice and build-word with a group selected. The
   pool holds the candidates that have the field the game needs (translation
   or image); the candidates are the words of the selected status, in
   build-word those of simple spelling only. If fewer than 10 candidates are
   in the group, the out-of-group words of the pool follow the in-group ones
   and none is left out; if 10 or more are, the pool holds no out-of-group
   word. *)
C28_GroupFallback ==
    /\ (page = "mc" /\ mc.settings.groupId # ALL) =>
          GroupRule(McFilteredBaseWords(words, mc.settings),
                    InGroupCount(mc.settings), mc.settings.groupId,
                    [i \in 1..Len(words) |-> StatusMatches(words[i], mc.settings.status)],
                    [i \in 1..Len(words) |-> McPlayable(words[i], mc.settings.mode)])
    /\ (page = "bw" /\ bw.settings.groupId # ALL) =>
          GroupRule(BwFilteredBaseWords(words, bw.settings),
                    SimpleInGroupCount(bw.settings), bw.settings.groupId,
                    [i \in 1..Len(words) |-> /\ StatusMatches(words[i], bw.settings.status)
                                             /\ IsSimpleWord(words[i].word_en)],
                    [i \in 1..Len(words) |-> Truthy(words[i].translation_uk)])

(* C28 as stated: the count and the appended words are the status-matching
   words, whatever their spelling and fields. *)
C28_StatusMatchingOnly ==
    /\ (page = "mc" /\ mc.settings.groupId # ALL) =>
          GroupRule(McFilteredBaseWords(words, mc.settings),
                    InGroupCount(mc.settings), mc.settings.groupId,
                    [i \in 1..Len(words) |-> StatusMatches(words[i], mc.settings.status)],
                    [i \in 1..Len(words) |-> TRUE])
    /\ (page = "bw" /\ bw.settings.groupId # ALL) =>
          GroupRule(BwFilteredBaseWords(words, bw.settings),
                    InGroupCount(bw.settings), bw.settings.groupId,
                    [i \in 1..Len(words) |-> StatusMatches(words[i], bw.settings.status)],
                    [i \in 1..Len(words) |-> TRUE])

C28_Witness ==
    /\ page = "bw" /\ bw.settings.groupId = 1 /\ bw.settings.status = "all"
    /\ InGroupCount(bw.settings) >= FALLBACK_MIN
    /\ SimpleInGroupCount(bw.settings) < FALLBACK_MIN
    /\ \E j \in 1..Len(BwFilteredBaseWords(words, bw.settings)) :
           BwFilteredBaseWords(words, bw.settings)[j].group_id # 1

-----------------------------------------------------------------------------
(* C29: start with an insufficient pool (empty filtered pool; fewer than 2
   words in column-pairs; no buildable question in multiple-choice) does not
   start a session: in every setup state with such a pool the start handler
   leaves phase, session items, answers and counters as they are and sets an
   error, which the setup view shows. *)
McInsufficient(st) ==
    LET pool == McFilteredBaseWords(words, st.settings)
    IN \/ Len(pool) = 0
       \/ \A qs \in BuildQuestions(pool, st.settings.mode, st.settings.questionCount) :
              Len(qs) = 0

C29_InsufficientPoolNoSession ==
    /\ (page = "mc" /\ mc.phase = "setup" /\ McInsufficient(mc)) =>
          \A st \in McStartGame(mc) :
              st.error # "null" /\ st = [mc EXCEPT !.error = st.error]
    /\ (page = "bw" /\ bw.phase = "setup"
            /\ Len(BwFilteredBaseWords(words, bw.settings)) = 0) =>
          \A st \in BwStartGame(bw) :
              st.error # "null" /\ st = [bw EXCEPT !.error = st.error]
    /\ (page = "cp" /\ cp.phase = "setup"
            /\ Len(CpFilteredWords(words, cp.settings)) < MIN_PAIRS) =>
          \A st \in CpStartGame(cp) :
              st.error # "null" /\ st = [cp EXCEPT !.error = st.error]

C29_Witness ==
    /\ page = "bw" /\ bw.phase = "setup"
    /\ Len(BwFilteredBaseWords(words, bw.settings)) = 0
    /\ bw.error = "noWords"
    /\ Len(bw.questions) > 0 /\ Len(bw.answers) > 0

-----------------------------------------------------------------------------
(* C30: every start or retry that enters playing resets the session: the
   answers are empty, correctCount, streak and bestStreak are 0, currentIndex
   is 0, no option and no check outcome is selected, no pair is committed or
   half selected, and the mark-as-known selection is empty; nothing carries
   over from the previous session. *)
C30_StartResetsSession ==
    [][ /\ (page = "mc" /\ mc.phase # "playing" /\ mc'.phase = "playing") =>
              /\ mc'.answers = <<>> /\ mc'.currentIndex = 0
              /\ mc'.correctCount = 0 /\ mc'.streak = 0 /\ mc'.bestStreak = 0
              /\ mc'.selectedIndex = -1
              /\ mc'.selectedForMark = {}
        /\ (page = "bw" /\ bw.phase # "playing" /\ bw'.phase = "playing") =>
              /\ bw'.answers = <<>> /\ bw'.currentIndex = 0
              /\ bw'.correctCount = 0 /\ bw'.streak = 0 /\ bw'.bestStreak = 0
              /\ bw'.selectedState = "idle" /\ bw'.feedback = "null"
              /\ bw'.selectedForMark = {}
              /\ \E b \in BuildSlotsAndLetters(bw'.questions[1],
                                                 bw'.settings.showFirstLetter) :
                     bw'.slots = b.slots /\ bw'.letters = b.letters
        /\ (page = "cp" /\ cp.phase # "playing" /\ cp'.phase = "playing") =>
              /\ cp'.answers = <<>> /\ cp'.correctCount = 0
              /\ cp'.pairs = <<>>
              /\ cp'.selectedLeftId = -1 /\ cp'.selectedRightId = -1
              /\ cp'.selectedForMark = {} ]_vars

\* a session of one word out of a pool of two, all ten questions asked for: a
\* retry of the wrong words only, just entered
C30_Witness ==
    /\ page = "bw" /\ bw.phase = "playing"
    /\ bw.settings.questionCount = 10
    /\ Len(BwFilteredBaseWords(words, bw.settings)) = 2
    /\ Len(bw.questions) = 1
    /\ bw.answers = <<>> /\ bw.selectedState = "idle"
    /\ BwResetDisabled(bw) \/ bw.settings.showFirstLetter

-----------------------------------------------------------------------------
(* C31: listen-words, in a run that is not stopped the items are narrated in
   playlist order from index 0, each once, and for each item the run goes
   through: the source text spoken and awaited, one base pause, the target
   text spoken or not, a pause of twice the base pause, the next item. *)
LwRunStep(from, to) ==
    \/ from.pc = "idle"    /\ to.pc = "speakEn" /\ to.i = 0
    \/ from.pc = "speakEn" /\ to.pc = "wait1"   /\ to.i = from.i /\ to.w = from.w
    \/ from.pc = "wait1"   /\ to.pc \in {"speakUk", "wait2"}
                           /\ to.i = from.i /\ to.w = from.w
    \/ from.pc = "speakUk" /\ to.pc = "wait2"   /\ to.i = from.i /\ to.w = from.w
    \/ from.pc = "wait2"   /\ to.pc = "speakEn" /\ to.i = from.i + 1
    \/ from.pc = "wait2"   /\ to.pc = "idle"    /\ from.i + 1 = Len(lw.playlist)

C31_NarrationOrder ==
    [][ (page = "lw" /\ page' = "lw" /\ ~lw.stopRequestedRef /\ ~lw'.stopRequestedRef) =>
          \A k \in 1..MaxRuns :
              lw'.loops[k] # lw.loops[k] =>
                  /\ LwRunStep(lw.loops[k], lw'.loops[k])
                  /\ lw'.loops[k].pc = "speakEn" =>
                         lw'.loops[k].w = <<lw'.playlist[lw'.loops[k].i + 1]>> ]_vars

-----------------------------------------------------------------------------
(* C32 (amended): listen-words, during playback the target text of an item is
   spoken exactly when the item has a translation and a target-language voice
   is selected or the hide-if-no-voice option is off: when the source
   utterance of a running loop ends, the loop goes on to the base pause and
   the target utterance in that case, and to the double pause otherwise. *)
LwSourceEnds(k) ==
    /\ lw.loops[k].pc = "speakEn" /\ ~lw.stopRequestedRef
    /\ lw'.loops[k].pc # "speakEn"

C32_TargetSpokenIff ==
    [][ \A k \in 1..MaxRuns :
          LwSourceEnds(k) =>
              LET w == lw.loops[k].w[1]
              IN /\ lw'.loops[k].pc \in {"wait1", "wait2"}
                 /\ lw'.loops[k].pc = "wait1" <=>
                        /\ Truthy(w.translation_uk)
                        /\ lw.selectedUkVoice \/ ~lw.settings.hideUkIfNoVoice ]_vars
    /\ [][ \A k \in 1..MaxRuns :
             lw'.loops[k].pc = "speakUk" /\ lw.loops[k].pc # "speakUk"
                 => lw.loops[k].pc = "wait1" ]_vars

(* C32 as stated: the target text is spoken exactly when a target-language
   voice is selected or the hide-if-no-voice option is off. *)
C32_VoiceOrOptionOnly ==
    [][ \A k \in 1..MaxRuns :
          LwSourceEnds(k) =>
              (lw'.loops[k].pc = "wait1" <=>
                  (lw.selectedUkVoice \/ ~lw.settings.hideUkIfNoVoice)) ]_vars

C32_Witness ==
    /\ page = "lw" /\ lw.isPlaying
    /\ lw.settings.hideUkIfNoVoice /\ lw.selectedUkVoice
    /\ \E k \in 1..MaxRuns : lw.loops[k].pc = "speakUk" /\ ~lw.loops[k].stopped

-----------------------------------------------------------------------------
(* C33: listen-words, each of stop, unmount and a settings change made during
   playback sets the cancellation flag (and cancels speech, which the effect
   cleanup does together with setting the flag). *)
LwTeardownTrigger ==
    /\ page = "lw" /\ lw.isPlaying
    /\ \/ ~lw'.isPlaying                  \* stop
       \/ page' # "lw"                    \* unmount
       \/ lw'.settings # lw.settings      \* a settings change

C33_TeardownSetsFlag ==
    [][ LwTeardownTrigger => lw'.stopRequestedRef ]_vars

(* C34: listen-words, while playback is running the playlist walked by the
   narration loop is the one in effect at Start: no step taken while playing
   changes the playlist the loop reads. *)
C34_PlaylistFixedWhilePlaying ==
    [][ (page = "lw" /\ lw.isPlaying /\ lw'.isPlaying) => lw'.playlist = lw.playlist ]_vars

(* C36: listen-words, whenever the playlist is non-empty the current index is
   inside it, and Next on the last item changes nothing. *)
LwNextOnLast ==
    \* handleNext applied with the current index on the last item
    [lw EXCEPT !.currentIndex = IF @ + 1 < Len(lw.playlist) THEN @ + 1 ELSE @,
               !.currentIndexRef = Min(@ + 1, Len(lw.playlist) - 1)]

C36_IndexInsidePlaylist ==
    (page = "lw" /\ Len(lw.playlist) > 0) =>
        /\ 0 <= lw.currentIndex /\ lw.currentIndex < Len(lw.playlist)
        /\ lw.currentIndex = Len(lw.playlist) - 1 =>
               LwNextOnLast.currentIndex = lw.currentIndex

-----------------------------------------------------------------------------
(* Listen-words under fair scheduling: every speak() call resolves (onend,
   onerror, or at once when speech synthesis is unavailable) and every wait()
   timer fires. *)
InitLwFair ==
    \* the listen-words page over a fetched list of MaxFairWords words
    /\ page = "lw"
    /\ words = WordList(MaxFairWords)
    /\ mc = McInit /\ bw = BwInit /\ cp = CpInit /\ mp = MpInit /\ fc = FcInit
    /\ lw = [LwInit EXCEPT !.playlist = WordList(MaxFairWords)]
    /\ statsPosts = <<>> /\ statsReplies = <<>> /\ call = NoCall

SpecLwFair ==
    InitLwFair /\ [][LwNext]_vars /\ WF_vars(LwSpeechEnd) /\ WF_vars(LwWaitTick)

(* C35: listen-words, every playback run terminates: from any state in which
   the page is playing, isPlaying eventually returns to false (or the page is
   left); and a run that ends without the flag being set has gone through the
   last item of the playlist. *)
LwRunEndsUnstopped(k) ==
    /\ page = "lw" /\ ~lw.stopRequestedRef
    /\ lw.loops[k].pc # "idle" /\ lw'.loops[k].pc = "idle"

C35_RunTerminates ==
    /\ (page = "lw" /\ lw.isPlaying) ~> (page # "lw" \/ ~lw.isPlaying)
    /\ [][ \A k \in 1..MaxRuns :
             LwRunEndsUnstopped(k) =>
                 /\ lw.loops[k].pc = "wait2"
                 /\ lw.loops[k].i + 1 >= Len(lw.playlist) ]_vars

C35_Witness ==
    /\ page = "lw" /\ lw.isPlaying /\ ~lw.stopRequestedRef
    /\ Len(lw.playlist) > 1
    /\ \E k \in 1..MaxRuns :
         /\ lw.loops[k].pc = "wait2" /\ ~lw.loops[k].stopped
         /\ lw.loops[k].i = Len(lw.playlist) - 1

-----------------------------------------------------------------------------
(* Multiple choice: "mark selected as known" *)

\* markKnownMutation in flight or settled: input is the list of PATCH
\* /words/:id/status requests issued, output is empty while the mutation is
\* pending and holds, once it has settled, which requests succeeded and whether
\* onSuccess has invalidated the ['words'] query
McMarkPending == call.fn = "markKnown" /\ call.output = <<>>

McMarkIds(selected) ==
    \* Array.from(selectedForMark): the ids in the order the set holds them
    {ids \in [1..Cardinality(selected) -> selected] : Range(ids) = selected}

McMarkKnownMutate(c, ids) ==
    \* handleMarkKnown
    IF Len(ids) = 0 THEN c
    ELSE [fn |-> "markKnown", input |-> ids, output |-> <<>>]

McMarkKnownAlwaysInvalidates(c, ok) ==
    \* a mutation that invalidates the cache whether or not the updates succeeded
    [c EXCEPT !.output = <<[ok |-> ok, invalidated |-> TRUE]>>]

McMarkKnownOnSettled(c, ok) ==
    \* Promise.all over the requests, then onSuccess when none was rejected
    [c EXCEPT !.output = <<[ok |-> ok,
                            invalidated |-> \A i \in 1..Len(ok) : ok[i]]>>]

McWordsRefetched(ws, ids) ==
    \* the ['words'] query fetched again after the updates were applied
    [i \in 1..Len(ws) |->
        IF ws[i].id \in Range(ids) THEN [ws[i] EXCEPT !.status = "known"] ELSE ws[i]]

McHandleMarkKnown ==
    /\ page = "mc" /\ mc.phase = "results"
    /\ ~McMarkPending /\ mc.selectedForMark # {}
    /\ \E ids \in McMarkIds(mc.selectedForMark) :
         call' = McMarkKnownMutate(call, ids)
    /\ UNCHANGED <<page, words, mc, bw, cp, mp, fc, lw, statsPosts, statsReplies>>

McMarkKnownSettled ==
    \* every request of the mutation has been answered, or one was rejected
    /\ page = "mc" /\ McMarkPending
    /\ \E ok \in [1..Len(call.input) -> BOOLEAN] :
         /\ call' = McMarkKnownOnSettled(call, ok)
         /\ words' = IF call'.output[1].invalidated
                     THEN McWordsRefetched(words, call.input) ELSE words
    /\ UNCHANGED <<page, mc, bw, cp, mp, fc, lw, statsPosts, statsReplies>>

\* the multiple-choice page played with the settings it starts with
MarkNext ==
    \/ McHandleStartGame
    \/ McHandleRetry
    \/ McHandleSelectOption
    \/ McHandleNextQuestion
    \/ McHandleToggleMark
    \/ McChangeSettings
    \/ McHandleMarkKnown
    \/ McMarkKnownSettled

InitMark == InitPage("mc")
SpecMark == InitMark /\ [][MarkNext]_vars

(* C37: mark-selected-as-known issues exactly one status-update request per
   selected word id, and none when the selection is empty; the word cache is
   invalidated when, and only when, every update has succeeded; issuing the
   requests and their success or failure leave the phase and the session state
   unchanged. *)
McMarkIssued == call'.fn = "markKnown" /\ call'.output = <<>> /\ call' # call
McMarkSettles == McMarkPending /\ call' # call

C37_MarkKnownRequests ==
    /\ [][ McMarkIssued =>
             /\ Len(call'.input) = Cardinality(mc.selectedForMark)
             /\ Range(call'.input) = mc.selectedForMark
             /\ mc' = mc /\ words' = words ]_vars
    /\ [][ McMarkSettles =>
             LET out == call'.output[1]
                 allOk == \A i \in 1..Len(call.input) : out.ok[i]
             IN /\ call'.input = call.input
                /\ out.invalidated <=> allOk
                /\ mc' = mc
                /\ ~allOk => words' = words ]_vars
    /\ [](McMarkKnownMutate(call, <<>>) = call)

C37_Witness ==
    /\ page = "mc" /\ mc.phase = "results"
    /\ call.fn = "markKnown" /\ Len(call.input) = 2 /\ call.output # <<>>
    /\ ~call.output[1].invalidated /\ call.output[1].ok[1]

-----------------------------------------------------------------------------
(* C38: matching-pairs, at most two unmatched cards are face-up at any time,
   and a click made while two unmatched cards are face-up has no effect. *)
MpUnmatchedFaceUp ==
    {i \in Range(mp.flipped) : mp.cards[i + 1].wordId \notin Range(mp.matchedWordIds)}

C38_AtMostTwoFaceUp ==
    (page = "mp" /\ mp.phase = "playing") =>
        /\ Cardinality(MpUnmatchedFaceUp) <= 2
        /\ Cardinality(MpUnmatchedFaceUp) = 2 =>
               \A index \in 0..(Len(mp.cards) - 1) : MpCardClick(mp, index) = mp

(* C39: matching-pairs, the phase is finished exactly when every pair of the
   game has been matched; the results then hold exactly one entry per word of
   the game; and a word's result is correct iff the word was never part of a
   mismatched flip: its wrong count rises exactly in the click that turns up a
   second card not matching the first, for the words of both cards, and its
   result is correct iff that count is zero. *)
MpGameWordIds == {mp.cards[i].wordId : i \in 1..Len(mp.cards)}

MpMismatchedNow ==
    \* the word ids of a mismatched pair turned up by this step
    IF /\ Len(mp.flipped) = 1 /\ Len(mp'.flipped) = 2 /\ mp'.moves = mp.moves + 1
       /\ ~MpIsMatch(mp.cards[mp'.flipped[1] + 1], mp.cards[mp'.flipped[2] + 1])
    THEN {mp.cards[mp'.flipped[1] + 1].wordId, mp.cards[mp'.flipped[2] + 1].wordId}
    ELSE {}

C39_FinishedWhenAllMatched ==
    /\ []((page = "mp" /\ mp.phase \in {"playing", "finished"}) =>
            /\ mp.phase = "finished" <=>
                   (MpGameWordIds # {} /\ Range(mp.matchedWordIds) = MpGameWordIds)
            /\ mp.phase = "finished" =>
                   /\ Len(mp.results) = Cardinality(MpGameWordIds)
                   /\ {mp.results[k].word.id : k \in 1..Len(mp.results)} = MpGameWordIds
                   /\ \A k \in 1..Len(mp.results) :
                        mp.results[k].isCorrect <=>
                            mp.wordStats[mp.results[k].word.id].wrong = 0)
    /\ [][ (page = "mp" /\ mp.phase = "playing" /\ mp'.phase # "config") =>
             \A id \in 1..MaxWords :
                 mp'.wordStats[id].wrong =
                     mp.wordStats[id].wrong + (IF id \in MpMismatchedNow THEN 1 ELSE 0) ]_vars
    /\ [][ (page = "mp" /\ mp.phase # "playing" /\ mp'.phase = "playing") =>
             \A id \in 1..MaxWords : mp'.wordStats[id].wrong = 0 ]_vars

C39_Witness ==
    /\ page = "mp" /\ mp.phase = "finished"
    /\ Len(mp.results) = 2
    /\ \E k \in 1..Len(mp.results) : ~mp.results[k].isCorrect

-----------------------------------------------------------------------------
(* C40: flashcards with sideFirst = random, the side shown first is chosen at
   random for the session: from a setup state with that setting and a
   non-empty pool, Start can produce a session whose cards show the English
   word first and can produce one whose cards show the translation first. *)
FcSidesStartCanShow == {FcFrontSide(st) : st \in FcStart(fc)}

C40_RandomSideBothPossible ==
    (/\ page = "fc" /\ fc.phase = "setup"
     /\ fc.settings.sideFirst = "random"
     /\ Len(FcFilteredWords(words, fc.settings)) # 0)
        => FcSidesStartCanShow = {"en", "uk"}

(* With sideFirst = random every card of every session shows the English
   word first. *)
C40_RandomIsEnglishFirst ==
    (page = "fc" /\ fc.phase = "playing" /\ fc.settings.sideFirst = "random")
        => FcFrontSide(fc) = "en"

C40_RandomPlayed ==
    /\ page = "fc" /\ fc.phase = "playing" /\ fc.settings.sideFirst = "random"
    /\ fc.settings.order = "random" /\ fc.currentIndex > 0
====
